---------------------------- MODULE Spec2Model ----------------------------
(***************************************************************************)
(* A model of the analytics core of the swarmdash dashboard:               *)
(*   - the Metrics Engine (utils/calculations.py, components/metrics.py    *)
(*     and the percentile loops of the pages),                             *)
(*   - the Tabular Loader (core/data_loader.py), sequential and parallel,  *)
(*   - the text-generation boundary (components/ai_assistant.py).          *)
(*                                                                         *)
(* Numbers are exact rationals <<n, d>> with d > 0; NaN is <<0, 0>>.       *)
(* A DataFrame is a function from column names to equally long sequences   *)
(* of cells; a Series is a function from index labels to cells.            *)
(***************************************************************************)
EXTENDS Integers, Sequences, FiniteSets, TLC

VARIABLES
    op,             \* the operation that ran last ("none" after construction)
    selected_df,    \* percentile: the table whose values are ranked
    full_df,        \* percentile: the reference population table
    percentile_df,  \* percentile: the table calculate_percentile_values returns
    percentiles,    \* percentile: the dict calculate_player_percentiles builds
    df,             \* load score: the table that is scored
    contribution,   \* load score: per weighted column, normalized * weight of each row
    load_score,     \* load score: the Series the call returns
    player_data,    \* performance score: the player's averages (a Series)
    all_data,       \* performance score: the population table
    score,          \* performance score: the value the call returns
    file,           \* loader: the file at the path given to load_data
    loaded,         \* loader: the outcome of load_data ([raised, table])
    file_dict,      \* parallel loader: name -> file at that name's path
    max_workers,    \* parallel loader: size of the worker pool
    par_pc,         \* parallel loader: position of the calling thread
    futures,        \* parallel loader: name -> the state of that name's task
    results,        \* parallel loader: the mapping under construction
    api_key,        \* AI coach: the credential typed into the sidebar
    lib,            \* AI coach: the state of the provider library
    context,        \* AI coach: the context of the call in progress
    ai_pc,          \* AI coach: position inside get_ai_coach_insights
    calls,          \* AI coach: the provider steps of the call, in order
    err,            \* AI coach: the text of the exception not yet recovered from
    ai_result,      \* AI coach: what the call returned
    session_state,  \* AI coach: st.session_state, insights key -> text
    args,           \* function call: the arguments of the call, by parameter name
    ret             \* function call: the outcome of the call ([raised, value])

pctVars == <<selected_df, full_df, percentile_df, percentiles>>
loadVars == <<df, contribution, load_score>>
perfVars == <<player_data, all_data, score>>
fileVars == <<file, loaded>>
parVars == <<file_dict, max_workers, par_pc, futures, results>>

aiVars == <<api_key, lib, context, ai_pc, calls, err, ai_result, session_state>>
callVars == <<args, ret>>

vars == <<op, pctVars, loadVars, perfVars, fileVars, parVars, aiVars, callVars>>

\* what the operations of one group leave alone
notPctVars == <<loadVars, perfVars, fileVars, parVars, aiVars, callVars>>
notLoadVars == <<pctVars, perfVars, fileVars, parVars, aiVars, callVars>>
notPerfVars == <<pctVars, loadVars, fileVars, parVars, aiVars, callVars>>
notFileVars == <<pctVars, loadVars, perfVars, parVars, aiVars, callVars>>
notParVars == <<pctVars, loadVars, perfVars, fileVars, aiVars, callVars>>
notAiVars == <<pctVars, loadVars, perfVars, fileVars, parVars, callVars>>
notCallVars == <<pctVars, loadVars, perfVars, fileVars, parVars, aiVars>>

----------------------------------------------------------------------------
(* Bounds of the model *)

MaxVal == 2     \* metric cells hold 0..MaxVal or NaN
MaxRef == 3     \* rows of a reference population table
MaxRows == 2    \* rows of a table that is scored
MaxPop == 2     \* rows of the population table of the performance score
MaxPerfVal == 1 \* the population's cells hold 0..MaxPerfVal or NaN
MaxFileRows == 2 \* data rows of a file
MaxFiles == 2   \* names given to load_multiple_files_parallel
MaxLoad == 4    \* the loads of the fatigue index are 0..MaxLoad or NaN
MaxStd == 2     \* the historical std is 0..MaxStd or NaN
MaxLen == 3     \* points of a time series
MaxSeriesVal == 1 \* a time series holds -1..MaxSeriesVal, the sample values or NaN

----------------------------------------------------------------------------
(* Numbers: float64 values as exact rationals, NaN as <<0, 0>> *)

NaN == <<0, 0>>
Num(v) == <<v, 1>>
IsNaN(x) == x[2] = 0
NotNa(x) == x[2] # 0

Abs(n) == IF n < 0 THEN 0 - n ELSE n

RECURSIVE GCD(_, _)
GCD(a, b) == IF b = 0 THEN a ELSE GCD(b, a % b)

\* the rational n / d (d # 0) in lowest terms with a positive denominator
Rat(n, d) ==
    LET g == GCD(Abs(n), Abs(d))
    IN  IF d > 0 THEN <<n \div g, d \div g>> ELSE <<(0 - n) \div g, (0 - d) \div g>>

RAdd(a, b) == IF IsNaN(a) \/ IsNaN(b) THEN NaN
              ELSE Rat(a[1] * b[2] + b[1] * a[2], a[2] * b[2])

RSub(a, b) == IF IsNaN(a) \/ IsNaN(b) THEN NaN
              ELSE Rat(a[1] * b[2] - b[1] * a[2], a[2] * b[2])

RMul(a, b) == IF IsNaN(a) \/ IsNaN(b) THEN NaN
              ELSE Rat(a[1] * b[1], a[2] * b[2])

\* numpy division: 0 / 0 is NaN (a RuntimeWarning, no exception).  In the
\* code modelled here a zero divisor only meets a zero dividend (the count
\* over an empty series, x - min of a constant column).
RDiv(a, b) == IF IsNaN(a) \/ IsNaN(b) \/ b[1] = 0 THEN NaN
              ELSE Rat(a[1] * b[2], a[2] * b[1])

\* IEEE comparisons: every comparison with NaN is false
RLess(a, b) == NotNa(a) /\ NotNa(b) /\ a[1] * b[2] < b[1] * a[2]
RLeq(a, b) == NotNa(a) /\ NotNa(b) /\ a[1] * b[2] <= b[1] * a[2]
REq(a, b) == NotNa(a) /\ NotNa(b) /\ a[1] * b[2] = b[1] * a[2]

Cells == {Num(v) : v \in 0..MaxVal} \cup {NaN}

----------------------------------------------------------------------------
(* pandas Series helpers *)

\* Series.dropna()
dropna(s) == SelectSeq(s, NotNa)

RECURSIVE SumSeq(_)
SumSeq(s) == IF s = <<>> THEN Num(0) ELSE RAdd(Head(s), SumSeq(Tail(s)))

\* Series.mean(): the mean of the non-missing values, NaN when there is none
Mean(s) == RDiv(SumSeq(dropna(s)), Num(Len(dropna(s))))

\* a count that credits ties
RECURSIVE CountLessLeq(_, _)
CountLessLeq(all_values, val) ==
    IF all_values = <<>> THEN 0
    ELSE (IF RLeq(Head(all_values), val) THEN 1 ELSE 0)
         + CountLessLeq(Tail(all_values), val)

\* a count of the values above val
RECURSIVE CountGreater(_, _)
CountGreater(all_values, val) ==
    IF all_values = <<>> THEN 0
    ELSE (IF RLess(val, Head(all_values)) THEN 1 ELSE 0)
         + CountGreater(Tail(all_values), val)

\* (all_values < val).sum()
RECURSIVE CountLess(_, _)
CountLess(all_values, val) ==
    IF all_values = <<>> THEN 0
    ELSE (IF RLess(Head(all_values), val) THEN 1 ELSE 0)
         + CountLess(Tail(all_values), val)

\* (all_values < val).sum() / len(all_values) * 100
PercentileExpr(all_values, val) ==
    RMul(RDiv(Num(CountLess(all_values, val)), Num(Len(all_values))), Num(100))

\* lambda val: ... if pd.notna(val) else 0
PercentileLambda(all_values, val) ==
    IF NotNa(val) THEN PercentileExpr(all_values, val) ELSE Num(0)

\* a reference column read without dropping its missing values
ReferenceValuesKeepNa(t, metric) == t[metric]

\* all_values = full_df[metric].dropna()
ReferenceValues(t, metric) == dropna(t[metric])

----------------------------------------------------------------------------
(* calculate_percentile_values, the two implementations *)

Apply(s, F(_)) == [i \in DOMAIN s |-> F(s[i])]

\* utils/calculations.py: a metric whose reference column has no value is
\* left as copied from selected_df
utils_calculate_percentile_values(sel, full, metrics) ==
    [m \in DOMAIN sel |->
        IF m \in metrics /\ m \in DOMAIN full
           /\ Len(ReferenceValues(full, m)) > 0
        THEN LET all_values == ReferenceValues(full, m)
                 f(val) == PercentileLambda(all_values, val)
             IN  Apply(sel[m], f)
        ELSE sel[m]]

\* components/metrics.py: no guard on the length of the reference column
metrics_calculate_percentile_values(sel, full, metrics) ==
    [m \in DOMAIN sel |->
        IF m \in metrics /\ m \in DOMAIN full
        THEN LET all_values == ReferenceValues(full, m)
                 f(val) == PercentileLambda(all_values, val)
             IN  Apply(sel[m], f)
        ELSE sel[m]]

\* pages/player_profile.py: the player's mean against all individual values
calculate_player_percentiles(player, population, metrics) ==
    LET player_avg == [m \in metrics |-> Mean(player[m])]
    IN  [m \in {x \in metrics : x \in DOMAIN population} |->
            PercentileExpr(ReferenceValues(population, m), player_avg[m])]

\* pages/player_comparison.py: the same loop, over the selected metrics and
\* without the column test
display_detailed_metrics_comparison(player_averages, full, metrics) ==
    [m \in metrics |->
        PercentileExpr(ReferenceValues(full, m), player_averages[m])]

----------------------------------------------------------------------------
(* The percentile operations as a state machine *)

PctMetric == "Total Distance"
PctMetrics == {PctMetric}

ColumnsOf(n) == [1..n -> Cells]

\* the selected table has the metric column, with one or two rows
SelectedTables == [PctMetrics -> ColumnsOf(1) \cup ColumnsOf(2)]

\* the reference table has the metric column or lacks it
ReferenceTables ==
    {<<>>} \cup [PctMetrics -> UNION {ColumnsOf(n) : n \in 0..MaxRef}]

NoTable == <<>>

\* no function call of the Metrics Engine utilities is in progress
CallIdle ==
    /\ args = NoTable
    /\ ret = NoTable

LoadIdle ==
    /\ df = NoTable
    /\ contribution = NoTable
    /\ load_score = <<>>

PerfIdle ==
    /\ player_data = NoTable
    /\ all_data = NoTable
    /\ score = NaN

FileIdle ==
    /\ file = NoTable
    /\ loaded = NoTable

ParIdle ==
    /\ file_dict = NoTable
    /\ max_workers = 0
    /\ par_pc = "idle"
    /\ futures = NoTable
    /\ results = NoTable

AiIdle ==
    /\ api_key = ""
    /\ lib = "installed"
    /\ context = ""
    /\ ai_pc = "idle"
    /\ calls = <<>>
    /\ err = ""
    /\ ai_result = NoTable
    /\ session_state = NoTable

PctIdle ==
    /\ selected_df = NoTable
    /\ full_df = NoTable
    /\ percentile_df = NoTable
    /\ percentiles = NoTable

InitPct ==
    /\ op = "none"
    /\ selected_df \in SelectedTables
    /\ full_df \in ReferenceTables
    /\ percentile_df = NoTable
    /\ percentiles = NoTable
    /\ LoadIdle
    /\ PerfIdle
    /\ FileIdle
    /\ ParIdle
    /\ AiIdle
    /\ CallIdle

UtilsPercentile ==
    /\ percentile_df' = utils_calculate_percentile_values(selected_df, full_df, PctMetrics)
    /\ op' = "utils.calculate_percentile_values"
    /\ UNCHANGED <<selected_df, full_df, percentiles, notPctVars>>

MetricsPercentile ==
    /\ percentile_df' = metrics_calculate_percentile_values(selected_df, full_df, PctMetrics)
    /\ op' = "metrics.calculate_percentile_values"
    /\ UNCHANGED <<selected_df, full_df, percentiles, notPctVars>>

PlayerPercentiles ==
    /\ percentiles' = calculate_player_percentiles(selected_df, full_df, PctMetrics)
    /\ op' = "calculate_player_percentiles"
    /\ UNCHANGED <<selected_df, full_df, percentile_df, notPctVars>>

\* player_averages.loc[player] is the mean of the player's rows; full_df[metric]
\* raises KeyError when the column is absent, so the loop needs the column
DetailedComparison ==
    /\ PctMetrics \subseteq DOMAIN full_df
    /\ percentiles' = display_detailed_metrics_comparison(
                          [m \in PctMetrics |-> Mean(selected_df[m])], full_df, PctMetrics)
    /\ op' = "display_detailed_metrics_comparison"
    /\ UNCHANGED <<selected_df, full_df, percentile_df, notPctVars>>

NextPct == UtilsPercentile \/ MetricsPercentile \/ PlayerPercentiles \/ DetailedComparison

SpecPct == InitPct /\ [][NextPct]_vars

----------------------------------------------------------------------------
(* Load scores: components/metrics.py and utils/calculations.py *)

\* weights in hundredths, in the order of the dict literals
LoadMetrics == <<"Total Distance", "Sprint Distance", "High Speed Running",
                 "Accelerations", "Decelerations">>

weights ==
    [m \in {LoadMetrics[i] : i \in DOMAIN LoadMetrics} |->
        CASE m = "Total Distance" -> 30
          [] m = "Sprint Distance" -> 20
          [] m = "High Speed Running" -> 20
          [] m = "Accelerations" -> 15
          [] m = "Decelerations" -> 15]

AdvancedMetrics == <<"Total Distance", "Sprint Distance", "High Speed Running",
                     "Accelerations", "Decelerations", "Max Speed">>

\* weights of 25 hundredths for every metric
base_weights_equal ==
    [m \in {AdvancedMetrics[i] : i \in DOMAIN AdvancedMetrics} |-> 25]

base_weights ==
    [m \in {AdvancedMetrics[i] : i \in DOMAIN AdvancedMetrics} |->
        CASE m = "Total Distance" -> 25
          [] m = "Sprint Distance" -> 20
          [] m = "High Speed Running" -> 20
          [] m = "Accelerations" -> 15
          [] m = "Decelerations" -> 15
          [] m = "Max Speed" -> 5]

Weight(w) == Rat(w, 100)

RECURSIVE MinSeq(_)
MinSeq(s) == IF Len(s) = 1 THEN s[1]
             ELSE LET r == MinSeq(Tail(s)) IN IF RLess(r, Head(s)) THEN r ELSE Head(s)

RECURSIVE MaxSeq(_)
MaxSeq(s) == IF Len(s) = 1 THEN s[1]
             ELSE LET r == MaxSeq(Tail(s)) IN IF RLess(Head(s), r) THEN r ELSE Head(s)

\* Series.min() and Series.max() skip missing values; NaN when none is left
ColMin(s) == IF dropna(s) = <<>> THEN NaN ELSE MinSeq(dropna(s))
ColMax(s) == IF dropna(s) = <<>> THEN NaN ELSE MaxSeq(dropna(s))

\* (df[metric] - df[metric].min()) / (df[metric].max() - df[metric].min()) * 100
Normalized(col) ==
    [i \in DOMAIN col |->
        RMul(RDiv(RSub(col[i], ColMin(col)), RSub(ColMax(col), ColMin(col))), Num(100))]

\* normalized * weight
Contribution(t, metric) ==
    [i \in DOMAIN t[metric] |-> RMul(Normalized(t[metric])[i], Weight(base_weights[metric]))]

\* load_score = pd.Series(0, index=df.index); load_score += ... per present metric
RECURSIVE AddContributions(_, _, _)
AddContributions(acc, t, ms) ==
    IF ms = <<>> THEN acc
    ELSE AddContributions(
            IF Head(ms) \in DOMAIN t
            THEN [i \in DOMAIN acc |-> RAdd(acc[i], Contribution(t, Head(ms))[i])]
            ELSE acc,
            t, Tail(ms))

calculate_load_score_advanced(t, n) ==
    AddContributions([i \in 1..n |-> Num(0)], t, AdvancedMetrics)

\* load_score += df[metric] * weight
RECURSIVE AddWeighted(_, _, _)
AddWeighted(acc, t, ms) ==
    IF ms = <<>> THEN acc
    ELSE AddWeighted(
            IF Head(ms) \in DOMAIN t
            THEN [i \in DOMAIN acc |-> RAdd(acc[i], RMul(t[Head(ms)][i], Weight(weights[Head(ms)])))]
            ELSE acc,
            t, Tail(ms))

\* a score that adds every numeric column of the table, unweighted
RECURSIVE AddColumns(_, _, _)
AddColumns(acc, t, cols) ==
    IF cols = {} THEN acc
    ELSE LET c == CHOOSE x \in cols : TRUE
         IN  AddColumns([i \in DOMAIN acc |-> RAdd(acc[i], t[c][i])], t, cols \ {c})

calculate_load_score_unweighted(t, n) == AddColumns([i \in 1..n |-> Num(0)], t, DOMAIN t)

calculate_load_score(t, n) == AddWeighted([i \in 1..n |-> Num(0)], t, LoadMetrics)

\* the tables that are scored: 1..MaxRows rows and any of two columns, one
\* weighted by both schemes and one by the advanced scheme only
LoadCols == {"Total Distance", "Max Speed"}

LoadTables ==
    UNION {[cols -> ColumnsOf(n)] : cols \in SUBSET LoadCols, n \in 1..MaxRows}

RowsOf(t) == IF DOMAIN t = {} THEN 0 ELSE Len(t[CHOOSE c \in DOMAIN t : TRUE])

InitLoad ==
    /\ op = "none"
    /\ df \in LoadTables
    /\ contribution = NoTable
    /\ load_score = <<>>
    /\ PctIdle
    /\ PerfIdle
    /\ FileIdle
    /\ ParIdle
    /\ AiIdle
    /\ CallIdle

LoadScoreAdvanced ==
    /\ load_score' = calculate_load_score_advanced(df, RowsOf(df))
    /\ contribution' =
         [m \in DOMAIN df \cap DOMAIN base_weights |-> Contribution(df, m)]
    /\ op' = "calculate_load_score_advanced"
    /\ UNCHANGED <<df, notLoadVars>>

LoadScore ==
    /\ load_score' = calculate_load_score(df, RowsOf(df))
    /\ contribution' = NoTable
    /\ op' = "calculate_load_score"
    /\ UNCHANGED <<df, notLoadVars>>

NextLoad == LoadScoreAdvanced \/ LoadScore

SpecLoadScore == InitLoad /\ [][NextLoad]_vars

----------------------------------------------------------------------------
(* calculate_performance_score: components/metrics.py, core/constants.py *)

\* METRICS = REQUIRED_COLUMNS[2:], in the order of PERFORMANCE_WEIGHTS
PerformanceMetrics == <<"Total Distance", "Max Speed", "No of Sprints", "Sprint Distance",
                        "High Speed Running", "Accelerations", "Decelerations">>

\* weights in hundredths
PERFORMANCE_WEIGHTS ==
    [m \in {PerformanceMetrics[i] : i \in DOMAIN PerformanceMetrics} |->
        CASE m = "Total Distance" -> 20
          [] m = "Max Speed" -> 15
          [] m = "No of Sprints" -> 15
          [] m = "Sprint Distance" -> 15
          [] m = "High Speed Running" -> 15
          [] m = "Accelerations" -> 10
          [] m = "Decelerations" -> 10]

\* a test that lets every present metric through
AnyAverage(avg_value) == TRUE

\* if avg_value > 0
PositiveAverage(avg_value) == RLess(Num(0), avg_value)

\* if metric in player_data.index and metric in all_data.columns, and then
\* if avg_value > 0
Counted(player, population, metric) ==
    /\ metric \in DOMAIN player
    /\ metric \in DOMAIN population
    /\ PositiveAverage(Mean(population[metric]))

\* score += (player_value / avg_value) * weight
RECURSIVE ScoreSum(_, _, _)
ScoreSum(player, population, ms) ==
    IF ms = <<>> THEN Num(0)
    ELSE LET m == ms[Len(ms)]
             rest == ScoreSum(player, population, SubSeq(ms, 1, Len(ms) - 1))
         IN  IF Counted(player, population, m)
             THEN RAdd(rest, RMul(RDiv(player[m], Mean(population[m])),
                                  Weight(PERFORMANCE_WEIGHTS[m])))
             ELSE rest

\* a normalization by the whole weight table
AllWeights(player, population, ms) ==
    IF ms = <<>> THEN Num(0) ELSE Num(1)

\* valid_metrics += weight
RECURSIVE ValidMetrics(_, _, _)
ValidMetrics(player, population, ms) ==
    IF ms = <<>> THEN Num(0)
    ELSE LET m == ms[Len(ms)]
             rest == ValidMetrics(player, population, SubSeq(ms, 1, Len(ms) - 1))
         IN  IF Counted(player, population, m)
             THEN RAdd(rest, Weight(PERFORMANCE_WEIGHTS[m]))
             ELSE rest

\* return (score / valid_metrics * 100) if valid_metrics > 0 else 0
calculate_performance_score(player, population) ==
    LET s == ScoreSum(player, population, PerformanceMetrics)
        valid_metrics == ValidMetrics(player, population, PerformanceMetrics)
    IN  IF RLess(Num(0), valid_metrics)
        THEN RMul(RDiv(s, valid_metrics), Num(100))
        ELSE Num(0)

PerfCols == {"Total Distance", "Max Speed"}

PerfCells == {Num(v) : v \in 0..MaxPerfVal} \cup {NaN}

PopulationTables ==
    UNION {[cols -> [1..n -> PerfCells]] : cols \in SUBSET PerfCols, n \in 1..MaxPop}

\* the values a player's average takes: the population mean itself (the
\* player is the whole population), another number, or no value
PlayerValues(population, m) ==
    {Num(1), NaN} \cup (IF m \in DOMAIN population THEN {Mean(population[m])} ELSE {})

PlayerSeries(population) ==
    UNION {{f \in [idx -> PerfCells \cup {Mean(population[m]) : m \in DOMAIN population}] :
                \A m \in idx : f[m] \in PlayerValues(population, m)} :
           idx \in SUBSET PerfCols}

InitPerf ==
    /\ op = "none"
    /\ all_data \in PopulationTables
    /\ player_data \in PlayerSeries(all_data)
    /\ score = NaN
    /\ PctIdle
    /\ LoadIdle
    /\ FileIdle
    /\ ParIdle
    /\ AiIdle
    /\ CallIdle

PerformanceScore ==
    /\ score' = calculate_performance_score(player_data, all_data)
    /\ op' = "calculate_performance_score"
    /\ UNCHANGED <<player_data, all_data, notPerfVars>>

NextPerf == PerformanceScore

SpecPerf == InitPerf /\ [][NextPerf]_vars

----------------------------------------------------------------------------
(* The Tabular Loader: core/data_loader.py *)

\* A file is [exists, parses, cols]: whether the path exists, whether
\* pd.read_csv can parse it, and its raw columns (header text -> cell texts).
RawPlayerName == {"Player Name", " Player Name "}
RawNames == RawPlayerName \cup {"Session Type", "Total Distance"}

\* str.strip() on the header texts of the model
StripName(c) == IF c \in RawPlayerName THEN "Player Name" ELSE c

\* the cell texts of each column; "" is an empty field, which read_csv reads
\* as a missing value
RawCells(c) ==
    CASE c \in RawPlayerName -> {"", "A"}
      [] c = "Session Type" -> {" first half", "Total"}
      [] c = "Total Distance" -> {"", "1", "x"}

Headers == {h \in SUBSET RawNames : ~(RawPlayerName \subseteq h)}

MissingFile == [exists |-> FALSE, parses |-> FALSE, cols |-> <<>>]
CorruptFile == [exists |-> TRUE, parses |-> FALSE, cols |-> <<>>]

\* every table with header h and n rows
RECURSIVE RawTables(_, _)
RawTables(h, n) ==
    IF h = {} THEN {<<>>}
    ELSE LET c == CHOOSE x \in h : TRUE
         IN  {(c :> col) @@ t : col \in [1..n -> RawCells(c)], t \in RawTables(h \ {c}, n)}

ParsedFiles(maxrows) ==
    {[exists |-> TRUE, parses |-> TRUE, cols |-> t] :
        t \in UNION {RawTables(h, n) : h \in Headers \ {{}}, n \in 0..maxrows}}

Files == {MissingFile, CorruptFile} \cup ParsedFiles(MaxFileRows)

\* pd.DataFrame()
EmptyDataFrame == <<>>

\* df.empty: no column or no row
IsEmpty(t) == DOMAIN t = {} \/ \A c \in DOMAIN t : t[c] = <<>>

\* df.columns = df.columns.str.strip()
StripColumns(raw) ==
    [c \in {StripName(r) : r \in DOMAIN raw} |->
        raw[CHOOSE r \in DOMAIN raw : StripName(r) = c]]

\* a loader that keeps every row
KeepAll(col, i) == [k \in 1..(Len(col) + 1 - i) |-> i + k - 1]

\* the positions of the rows df.dropna(subset=["Player Name"]) keeps
RECURSIVE KeptFrom(_, _)
KeptFrom(col, i) ==
    IF i > Len(col) THEN <<>>
    ELSE (IF col[i] # "" THEN <<i>> ELSE <<>>) \o KeptFrom(col, i + 1)

\* astype(str).str.strip().str.title() on the session texts of the model
TitleCase(x) ==
    CASE x = " first half" -> "First Half"
      [] x = "Total" -> "Total"
      [] OTHER -> x

\* a conversion that reads an unparseable text as 0
ToNumericZero(x) ==
    CASE x = "0" -> Num(0)
      [] x = "1" -> Num(1)
      [] x = "2" -> Num(2)
      [] x = "" -> NaN
      [] OTHER -> Num(0)

\* pd.to_numeric(errors='coerce') on the cell texts of the model
ToNumeric(x) ==
    CASE x = "0" -> Num(0)
      [] x = "1" -> Num(1)
      [] x = "2" -> Num(2)
      [] OTHER -> NaN

METRICS == {"Total Distance", "Max Speed", "No of Sprints", "Sprint Distance",
            "Accelerations", "Decelerations", "High Speed Running"}

\* lines 16-31: the table built from a parsed file that has both columns
Preprocess(raw) ==
    LET t == StripColumns(raw)
        kept == KeptFrom(t["Player Name"], 1)
        conv(c, x) == IF c = "Session Type" THEN TitleCase(x)
                      ELSE IF c \in METRICS THEN ToNumeric(x)
                      ELSE x
    IN  [c \in DOMAIN t \cup {"timestamp"} |->
            [k \in 1..Len(kept) |->
                IF c = "timestamp" THEN kept[k] ELSE conv(c, t[c][kept[k]])]]

\* the body of the try block: [raised, table].  read_csv raises on a file it
\* cannot parse; dropna(subset=["Player Name"]) and df["Session Type"] raise
\* KeyError on a missing column.
load_data_body(f) ==
    IF ~f.exists THEN [raised |-> FALSE, table |-> EmptyDataFrame]
    ELSE IF ~f.parses THEN [raised |-> TRUE, table |-> EmptyDataFrame]
    ELSE IF "Player Name" \notin DOMAIN StripColumns(f.cols)
         THEN [raised |-> TRUE, table |-> EmptyDataFrame]
    ELSE IF "Session Type" \notin DOMAIN StripColumns(f.cols)
         THEN [raised |-> TRUE, table |-> EmptyDataFrame]
    ELSE [raised |-> FALSE, table |-> Preprocess(f.cols)]

\* a loader without the except clause
load_data_unguarded(f) == load_data_body(f)

\* load_data: except Exception -> st.error(...); return pd.DataFrame()
load_data(f) ==
    IF load_data_body(f).raised
    THEN [raised |-> FALSE, table |-> EmptyDataFrame]
    ELSE load_data_body(f)

InitFile ==
    /\ op = "none"
    /\ file \in Files
    /\ loaded = NoTable
    /\ PctIdle /\ LoadIdle /\ PerfIdle /\ ParIdle /\ AiIdle /\ CallIdle

LoadData ==
    /\ loaded' = load_data(file)
    /\ op' = "load_data"
    /\ UNCHANGED <<file, notFileVars>>

NextFile == LoadData

SpecFile == InitFile /\ [][NextFile]_vars

----------------------------------------------------------------------------
(* load_multiple_files_parallel: one task per name on a bounded worker pool *)

DefaultMaxWorkers == 4

\* the files the names of file_dict point to
NoPlayerFile ==
    [exists |-> TRUE, parses |-> TRUE,
     cols |-> ("Session Type" :> <<"Total">>) @@ ("Total Distance" :> <<"1">>)]
GoodFileA ==
    [exists |-> TRUE, parses |-> TRUE,
     cols |-> ("Player Name" :> <<"A">>) @@ ("Session Type" :> <<"Total">>)
              @@ ("Total Distance" :> <<"1">>)]
GoodFileB ==
    [exists |-> TRUE, parses |-> TRUE,
     cols |-> (" Player Name " :> <<"A", "">>) @@ ("Session Type" :> <<" first half", "Total">>)
              @@ ("Total Distance" :> <<"x", "1">>)]

SampleFiles == {MissingFile, CorruptFile, NoPlayerFile, GoodFileA, GoodFileB}

FileDicts == UNION {[1..k -> SampleFiles] : k \in 0..MaxFiles}

\* every task loads the path of the last name
LastPath(name) == file_dict[Len(file_dict)]

\* executor.submit(load_data, path): the path bound to the name
TaskPath(name) == file_dict[name]

Running == {n \in DOMAIN futures : futures[n].state = "running"}
Finished == {n \in DOMAIN futures : futures[n].state = "finished"}

\* a loop that stops at the first completed future
FirstCompleted == results # NoTable \/ DOMAIN futures = {}

\* the as_completed loop ends when every future has been yielded
AllYielded == DOMAIN results = DOMAIN futures

\* results[name] = future.result(), or pd.DataFrame() when result() raises
FutureResult(outcome) ==
    IF outcome.raised THEN EmptyDataFrame ELSE outcome.table

InitPar ==
    /\ op = "none"
    /\ file_dict \in FileDicts
    /\ max_workers \in 1..DefaultMaxWorkers
    /\ par_pc = "start"
    /\ futures = NoTable
    /\ results = NoTable
    /\ PctIdle /\ LoadIdle /\ PerfIdle /\ FileIdle /\ AiIdle /\ CallIdle

\* results = {}; the executor is created and every load is submitted
Submit ==
    /\ par_pc = "start"
    /\ futures' = [n \in DOMAIN file_dict |-> [state |-> "pending", outcome |-> NoTable]]
    /\ results' = NoTable
    /\ par_pc' = "as_completed"
    /\ UNCHANGED <<op, file_dict, max_workers, notParVars>>

\* an idle worker takes a queued task
WorkerStart(n) ==
    /\ par_pc = "as_completed"
    /\ futures[n].state = "pending"
    /\ Cardinality(Running) < max_workers
    /\ futures' = [futures EXCEPT ![n].state = "running"]
    /\ UNCHANGED <<op, file_dict, max_workers, par_pc, results, notParVars>>

\* the worker runs load_data(path) to its end
WorkerFinish(n) ==
    /\ par_pc = "as_completed"
    /\ futures[n].state = "running"
    /\ futures' = [futures EXCEPT ![n] =
                      [state |-> "finished", outcome |-> load_data(TaskPath(n))]]
    /\ UNCHANGED <<op, file_dict, max_workers, par_pc, results, notParVars>>

\* one iteration of the as_completed loop
Collect(n) ==
    /\ par_pc = "as_completed"
    /\ n \in Finished
    /\ n \notin DOMAIN results
    /\ results' = (n :> FutureResult(futures[n].outcome)) @@ results
    /\ UNCHANGED <<op, file_dict, max_workers, par_pc, futures, notParVars>>

\* the loop ends, the with block shuts the executor down (wait=True) and the
\* mapping is returned
Return ==
    /\ par_pc = "as_completed"
    /\ AllYielded
    /\ Finished = DOMAIN futures
    /\ par_pc' = "returned"
    /\ op' = "load_multiple_files_parallel"
    /\ UNCHANGED <<file_dict, max_workers, futures, results, notParVars>>

NextPar ==
    \/ Submit
    \/ \E n \in DOMAIN futures : WorkerStart(n)
    \/ \E n \in DOMAIN futures : WorkerFinish(n)
    \/ \E n \in DOMAIN futures : Collect(n)
    \/ Return

SpecPar == InitPar /\ [][NextPar]_vars

----------------------------------------------------------------------------
(* The text-generation boundary: components/ai_assistant.py *)

Contexts == {"Overall Performance Comparison", "Match Report: Total"}

\* one key for every context
SharedInsightsKey(c) == "insights_ai_button"

\* f"insights_ai_button_{context.replace(' ', '_').replace('/', '_').replace(':', '_')}"
InsightsKey(c) ==
    CASE c = "Overall Performance Comparison" -> "insights_ai_button_Overall_Performance_Comparison"
      [] c = "Match Report: Total" -> "insights_ai_button_Match_Report__Total"

\* The provider library: importable, missing (import raises ImportError),
\* broken (its import raises another exception, as a library does whose own
\* dependencies are incompatible), or legacy (it imports, but has no OpenAI
\* client class).
LibStates == {"installed", "missing", "broken", "legacy"}

\* the texts str(e) of the exceptions a provider call raises
ErrorTexts == {"The model gpt-4 does not exist", "Model not available",
               "Error code: 404", "Rate limit reached", "list index out of range"}

\* "model" in str(e).lower()
LowerHasModel(t) == t \in {"The model gpt-4 does not exist", "Model not available"}

\* "404" in str(e)
Has404(t) == t = "Error code: 404"

\* a retry after every failure of the first call
AlwaysFallBack(t) == TRUE

\* the retry test of the first except clause
ShouldFallBack(t) == LowerHasModel(t) \/ Has404(t)

\* the strings the function returns
EnterKey == [msg |-> "Please enter your OpenAI API key in the sidebar to enable AI Coach insights.",
             detail |-> ""]
NotInstalled == [msg |-> "OpenAI library not installed. Please run: pip install openai",
                 detail |-> ""]
CheckKey(e) == [msg |-> "AI Coach unavailable: {e}. Please check your API key.", detail |-> e]
LatestLibrary(e) ==
    [msg |-> "AI Coach unavailable: {e}. Please ensure you have the latest OpenAI library installed.",
     detail |-> e]
Content == [msg |-> "response.choices[0].message.content", detail |-> ""]

AiReturn(r) ==
    /\ ai_result' = r
    /\ ai_pc' = "returned"

InitAi ==
    /\ op = "none"
    /\ api_key \in {"", "sk-key"}
    /\ lib \in LibStates
    /\ context = ""
    /\ ai_pc = "idle"
    /\ calls = <<>>
    /\ err = ""
    /\ ai_result = NoTable
    /\ session_state = NoTable
    /\ PctIdle /\ LoadIdle /\ PerfIdle /\ FileIdle /\ ParIdle /\ CallIdle

\* display_ai_assistant: the button of a context is pressed and the call begins
PressButton(c) ==
    /\ ai_pc = "idle"
    /\ context' = c
    /\ ai_pc' = "start"
    /\ calls' = <<>>
    /\ err' = ""
    /\ ai_result' = NoTable
    /\ UNCHANGED <<op, api_key, lib, session_state, notAiVars>>

\* if not api_key: return "Please enter ..."
CheckKeyStep ==
    /\ ai_pc = "start"
    /\ IF api_key = ""
       THEN AiReturn(EnterKey)
       ELSE ai_pc' = "import" /\ UNCHANGED ai_result
    /\ UNCHANGED <<op, api_key, lib, context, calls, err, session_state, notAiVars>>

\* try: import openai / except ImportError: return "... not installed ..."
ImportStep ==
    /\ ai_pc = "import"
    /\ calls' = Append(calls, "import openai")
    /\ CASE lib = "missing" -> AiReturn(NotInstalled) /\ UNCHANGED err
         [] lib = "broken" ->
              ai_pc' = "raised" /\ err' = "TypeError" /\ UNCHANGED ai_result
         [] OTHER -> ai_pc' = "from_import" /\ UNCHANGED <<ai_result, err>>
    /\ UNCHANGED <<op, api_key, lib, context, session_state, notAiVars>>

\* from openai import OpenAI, inside the outer try
FromImportStep ==
    /\ ai_pc = "from_import"
    /\ calls' = Append(calls, "from openai import OpenAI")
    /\ IF lib = "legacy"
       THEN /\ err' = "cannot import name OpenAI"
            /\ AiReturn(LatestLibrary("cannot import name OpenAI"))
       ELSE ai_pc' = "client" /\ UNCHANGED <<ai_result, err>>
    /\ UNCHANGED <<op, api_key, lib, context, session_state, notAiVars>>

\* client = OpenAI(api_key=api_key), inside the outer try
ClientStep ==
    /\ ai_pc = "client"
    /\ calls' = Append(calls, "OpenAI")
    /\ \/ ai_pc' = "gpt-4" /\ UNCHANGED <<ai_result, err>>
       \/ /\ err' = "client construction failed"
          /\ AiReturn(LatestLibrary("client construction failed"))
    /\ UNCHANGED <<op, api_key, lib, context, session_state, notAiVars>>

\* the first model call and its except clause
Gpt4Step ==
    /\ ai_pc = "gpt-4"
    /\ calls' = Append(calls, "gpt-4")
    /\ \/ AiReturn(Content) /\ UNCHANGED err
       \/ \E e \in ErrorTexts :
            /\ err' = e
            /\ IF ShouldFallBack(e)
               THEN ai_pc' = "gpt-3.5-turbo" /\ UNCHANGED ai_result
               ELSE AiReturn(CheckKey(e))
    /\ UNCHANGED <<op, api_key, lib, context, session_state, notAiVars>>

\* the second model call and its except clause
Gpt35Step ==
    /\ ai_pc = "gpt-3.5-turbo"
    /\ calls' = Append(calls, "gpt-3.5-turbo")
    /\ \/ AiReturn(Content) /\ err' = ""
       \/ \E e \in ErrorTexts : err' = e /\ AiReturn(CheckKey(e))
    /\ UNCHANGED <<op, api_key, lib, context, session_state, notAiVars>>

\* st.session_state[f"insights_{button_key}"] = insights
StoreInsights ==
    /\ ai_pc = "returned"
    /\ session_state' = (InsightsKey(context) :> ai_result) @@ session_state
    /\ ai_pc' = "idle"
    /\ op' = "display_ai_assistant"
    /\ UNCHANGED <<api_key, lib, context, calls, err, ai_result, notAiVars>>

\* the exception leaves the page's run; the next run starts without a press
Rerun ==
    /\ ai_pc = "raised"
    /\ ai_pc' = "idle"
    /\ UNCHANGED <<op, api_key, lib, context, calls, err, ai_result, session_state, notAiVars>>

NextAi ==
    \/ \E c \in Contexts : PressButton(c)
    \/ CheckKeyStep
    \/ ImportStep
    \/ FromImportStep
    \/ ClientStep
    \/ Gpt4Step
    \/ Gpt35Step
    \/ StoreInsights
    \/ Rerun

SpecAi == InitAi /\ [][NextAi]_vars

----------------------------------------------------------------------------
(* load_multiple_files: the named files loaded in turn and concatenated *)

\* a loaded file without the Total Distance column
NoMetricFile ==
    [exists |-> TRUE, parses |-> TRUE,
     cols |-> ("Player Name" :> <<"B">>) @@ ("Session Type" :> <<"Total">>)]
\* a parsed file none of whose rows carries a player name
NamelessFile ==
    [exists |-> TRUE, parses |-> TRUE,
     cols |-> ("Player Name" :> <<"">>) @@ ("Session Type" :> <<"Total">>)
              @@ ("Total Distance" :> <<"1">>)]
GoodFileC ==
    [exists |-> TRUE, parses |-> TRUE,
     cols |-> ("Player Name" :> <<"B", "A">>) @@ ("Session Type" :> <<"Total", "Total">>)
              @@ ("Total Distance" :> <<"2", "">>)]

MultiSampleFiles == SampleFiles \cup {NoMetricFile, NamelessFile, GoodFileC}

MultiFileDicts == UNION {[1..k -> MultiSampleFiles] : k \in 0..MaxFiles}

\* len(df)
NRows(t) == IF DOMAIN t = {} THEN 0 ELSE Len(t[CHOOSE c \in DOMAIN t : TRUE])

\* df['Source'] = name
WithSource(t, name) ==
    [c \in DOMAIN t \cup {"Source"} |->
        IF c = "Source" THEN [k \in 1..NRows(t) |-> name] ELSE t[c]]

\* the list all_data after the iterations for the names i, i+1, ...
RECURSIVE AllData(_, _)
AllData(fd, i) ==
    IF i > Len(fd) THEN <<>>
    ELSE LET t == load_data(fd[i]).table
         IN  (IF ~IsEmpty(t) THEN <<WithSource(t, i)>> ELSE <<>>) \o AllData(fd, i + 1)

\* a concatenation that fills the cells of an absent column with 0
RECURSIVE ConcatColumnZero(_, _, _)
ConcatColumnZero(list, c, i) ==
    IF i > Len(list) THEN <<>>
    ELSE (IF c \in DOMAIN list[i] THEN list[i][c]
          ELSE [k \in 1..NRows(list[i]) |-> Num(0)]) \o ConcatColumnZero(list, c, i + 1)

\* one column of pd.concat: the frames' cells in list order, NaN where a
\* frame lacks the column
RECURSIVE ConcatColumn(_, _, _)
ConcatColumn(list, c, i) ==
    IF i > Len(list) THEN <<>>
    ELSE (IF c \in DOMAIN list[i] THEN list[i][c]
          ELSE [k \in 1..NRows(list[i]) |-> NaN]) \o ConcatColumn(list, c, i + 1)

\* pd.concat(all_data, ignore_index=True): the union of the columns
Concat(list) ==
    [c \in UNION {DOMAIN list[i] : i \in DOMAIN list} |-> ConcatColumn(list, c, 1)]

load_multiple_files(fd) ==
    LET all == AllData(fd, 1)
    IN  IF all # <<>> THEN Concat(all) ELSE EmptyDataFrame

InitMulti ==
    /\ op = "none"
    /\ args \in [file_dict : MultiFileDicts]
    /\ ret = NoTable
    /\ PctIdle /\ LoadIdle /\ PerfIdle /\ FileIdle /\ ParIdle /\ AiIdle

LoadMultipleFiles ==
    /\ op = "none"
    /\ ret' = [raised |-> FALSE, value |-> load_multiple_files(args.file_dict)]
    /\ op' = "load_multiple_files"
    /\ UNCHANGED <<args, notCallVars>>

NextMulti == LoadMultipleFiles

SpecMulti == InitMulti /\ [][NextMulti]_vars

----------------------------------------------------------------------------
(* The pages' computations over a table that lacks metric columns *)

\* the tables of the pages: any subset of the metric columns, all holding
\* the same cells
MetricColumns == {<<Num(1)>>, <<Num(1), Num(2)>>, <<NaN, Num(2)>>}
MetricTables ==
    {[c \in h |-> col] : h \in SUBSET METRICS, col \in MetricColumns}

\* pages/match_report.py: the keys of metrics_data and the columns each reads
MatchKeys == {"Distance", "Max Speed", "Sprints", "HSR", "Work Rate"}
KeyColumns(k) ==
    CASE k = "Distance" -> {"Total Distance"}
      [] k = "Max Speed" -> {"Max Speed"}
      [] k = "Sprints" -> {"No of Sprints"}
      [] k = "HSR" -> {"High Speed Running"}
      [] k = "Work Rate" -> {"Accelerations", "Decelerations"}

\* metrics_data: the column mean when the column is present, else 0
display_match_metrics(match_df) ==
    [k \in MatchKeys |->
        IF KeyColumns(k) \subseteq DOMAIN match_df
        THEN IF k = "Work Rate"
             THEN RAdd(Mean(match_df["Accelerations"]), Mean(match_df["Decelerations"]))
             ELSE Mean(match_df[CHOOSE c \in KeyColumns(k) : TRUE])
        ELSE Num(0)]

\* pages/player_profile.py line 39: the rows of the selected player (the
\* player of the first row, who has that row alone)
SelectedPlayerRows(t) == [c \in DOMAIN t |-> SubSeq(t[c], 1, 1)]

\* calculate_player_percentiles as render_player_strengths calls it:
\* player_data[METRICS] raises KeyError when a metric column is absent
render_player_strengths(t) ==
    LET player == SelectedPlayerRows(t)
    IN  IF ~(METRICS \subseteq DOMAIN player)
        THEN [raised |-> TRUE, value |-> NoTable]
        ELSE [raised |-> FALSE, value |-> calculate_player_percentiles(player, t, METRICS)]

InitPages ==
    /\ op = "none"
    /\ args \in [df : MetricTables]
    /\ ret = NoTable
    /\ PctIdle /\ LoadIdle /\ PerfIdle /\ FileIdle /\ ParIdle /\ AiIdle

DisplayMatchMetrics ==
    /\ op = "none"
    /\ ret' = [raised |-> FALSE, value |-> display_match_metrics(args.df)]
    /\ op' = "display_match_metrics"
    /\ UNCHANGED <<args, notCallVars>>

RenderPlayerStrengths ==
    /\ op = "none"
    /\ ret' = render_player_strengths(args.df)
    /\ op' = "render_player_strengths"
    /\ UNCHANGED <<args, notCallVars>>

NextPages == DisplayMatchMetrics \/ RenderPlayerStrengths

SpecPages == InitPages /\ [][NextPages]_vars

----------------------------------------------------------------------------
(* utils/calculations.py: calculate_fatigue_index *)

\* a classification whose thresholds are inclusive
calculate_fatigue_index_inclusive(current_load, historical_avg, historical_std) ==
    IF REq(historical_std, Num(0)) THEN "Normal"
    ELSE LET z_score == RDiv(RSub(current_load, historical_avg), historical_std)
         IN  IF RLeq(Num(2), z_score) THEN "High Risk"
             ELSE IF RLeq(Num(1), z_score) THEN "Moderate Risk"
             ELSE IF RLeq(z_score, Num(-1)) THEN "Under-loaded"
             ELSE "Normal"

calculate_fatigue_index(current_load, historical_avg, historical_std) ==
    IF REq(historical_std, Num(0)) THEN "Normal"
    ELSE LET z_score == RDiv(RSub(current_load, historical_avg), historical_std)
         IN  IF RLess(Num(2), z_score) THEN "High Risk"
             ELSE IF RLess(Num(1), z_score) THEN "Moderate Risk"
             ELSE IF RLess(z_score, Num(-1)) THEN "Under-loaded"
             ELSE "Normal"

Loads == {Num(v) : v \in 0..MaxLoad} \cup {NaN}
Stds == {Num(v) : v \in 0..MaxStd} \cup {NaN}

InitFatigue ==
    /\ op = "none"
    /\ args \in [current_load : Loads, historical_avg : Loads, historical_std : Stds]
    /\ ret = NoTable
    /\ PctIdle /\ LoadIdle /\ PerfIdle /\ FileIdle /\ ParIdle /\ AiIdle

FatigueIndex ==
    /\ op = "none"
    /\ ret' = [raised |-> FALSE,
               value |-> calculate_fatigue_index(args.current_load, args.historical_avg,
                                                 args.historical_std)]
    /\ op' = "calculate_fatigue_index"
    /\ UNCHANGED <<args, notCallVars>>

NextFatigue == FatigueIndex

SpecFatigue == InitFatigue /\ [][NextFatigue]_vars

----------------------------------------------------------------------------
(* utils/calculations.py: calculate_growth_rate, calculate_consistency_score *)

\* the values of the worked examples of the two functions
SampleValues == {5, 7, 10}

SeriesCells == {Num(v) : v \in ((0 - 1)..MaxSeriesVal) \cup SampleValues} \cup {NaN}

SeriesOf(maxlen) == UNION {[1..n -> SeriesCells] : n \in 0..maxlen}

\* a growth rate without the test of the baseline
calculate_growth_rate_unguarded(data) ==
    IF Len(data) < 2 THEN Num(0)
    ELSE LET first_value == data[1]
             last_value == data[Len(data)]
         IN  RMul(RDiv(RSub(last_value, first_value), first_value), Num(100))

calculate_growth_rate(data) ==
    IF Len(data) < 2 THEN Num(0)
    ELSE LET first_value == data[1]
             last_value == data[Len(data)]
         IN  IF REq(first_value, Num(0))
             THEN (IF RLess(Num(0), last_value) THEN Num(100) ELSE Num(0))
             ELSE RMul(RDiv(RSub(last_value, first_value), first_value), Num(100))

\* the sum of the squared deviations of the values of s from m
RECURSIVE SumSquares(_, _)
SumSquares(s, m) ==
    IF s = <<>> THEN Num(0)
    ELSE RAdd(RMul(RSub(Head(s), m), RSub(Head(s), m)), SumSquares(Tail(s), m))

\* Series.std() squared: the sample variance (ddof=1) of the non-missing
\* values, NaN when there are fewer than two
Variance(s) ==
    IF Len(dropna(s)) < 2 THEN NaN
    ELSE RDiv(SumSquares(dropna(s), Mean(s)), Num(Len(dropna(s)) - 1))

\* cv = std / mean * 100, held as its sign and its square (the square root
\* is not a rational)
CvSign(s) == IF RLess(Mean(s), Num(0)) THEN 0 - 1 ELSE 1
CvSquared(s) == RMul(RDiv(Variance(s), RMul(Mean(s), Mean(s))), Num(10000))

\* max(0, 100 - cv): Python's max keeps its first argument unless a later
\* one compares greater, so a NaN cv gives 0.  A value strictly between the
\* exact cases is the record [sign, square] standing for 100 - sign * sqrt(square).
MaxZeroHundredMinus(sign, square) ==
    IF IsNaN(square) THEN Num(0)
    ELSE IF REq(square, Num(0)) THEN Num(100)
    ELSE IF sign = 1 /\ RLeq(Num(10000), square) THEN Num(0)
    ELSE [sign |-> sign, square |-> square]

calculate_consistency_score(data) ==
    IF Len(data) < 2 \/ REq(Mean(data), Num(0)) THEN Num(100)
    ELSE MaxZeroHundredMinus(CvSign(data), CvSquared(data))

InitSeries ==
    /\ op = "none"
    /\ args \in [data : SeriesOf(MaxLen)]
    /\ ret = NoTable
    /\ PctIdle /\ LoadIdle /\ PerfIdle /\ FileIdle /\ ParIdle /\ AiIdle

GrowthRate ==
    /\ op = "none"
    /\ ret' = [raised |-> FALSE, value |-> calculate_growth_rate(args.data)]
    /\ op' = "calculate_growth_rate"
    /\ UNCHANGED <<args, notCallVars>>

ConsistencyScore ==
    /\ op = "none"
    /\ ret' = [raised |-> FALSE, value |-> calculate_consistency_score(args.data)]
    /\ op' = "calculate_consistency_score"
    /\ UNCHANGED <<args, notCallVars>>

NextSeries == GrowthRate \/ ConsistencyScore

SpecSeries == InitSeries /\ [][NextSeries]_vars

----------------------------------------------------------------------------
(* utils/calculations.py: calculate_trend_coefficient *)

\* x is the positions 0, 1, ... of the points; y holds numbers
Arange(n) == [i \in 1..n |-> Num(i - 1)]
TrendXs == {Arange(n) : n \in 0..MaxLen}
TrendYs == UNION {[1..n -> SeriesCells \ {NaN}] : n \in 0..MaxLen}

\* np.mean(y): the sum over the length, missing values not skipped
np_mean(y) == RDiv(SumSeq(y), Num(Len(y)))

RECURSIVE SumProducts(_, _)
SumProducts(x, y) ==
    IF x = <<>> THEN Num(0)
    ELSE RAdd(RMul(Head(x), Head(y)), SumProducts(Tail(x), Tail(y)))

\* np.polyfit(x, y, 1) for distinct x: the least-squares line; it raises
\* TypeError when x and y differ in length
polyfit(x, y) ==
    IF Len(x) # Len(y) THEN [raised |-> TRUE, value |-> NoTable]
    ELSE LET n == Num(Len(x))
             slope == RDiv(RSub(RMul(n, SumProducts(x, y)), RMul(SumSeq(x), SumSeq(y))),
                           RSub(RMul(n, SumProducts(x, x)), RMul(SumSeq(x), SumSeq(x))))
             intercept == RDiv(RSub(SumSeq(y), RMul(slope, SumSeq(x))), n)
         IN  [raised |-> FALSE, value |-> <<slope, intercept>>]

\* a fit without the test of the lengths: np.polyfit raises on an empty
\* vector and has no unique line through a single point
calculate_trend_coefficient_unguarded(x, y) ==
    IF Len(x) < 2 \/ Len(y) < 2 THEN [raised |-> TRUE, value |-> NoTable]
    ELSE polyfit(x, y)

calculate_trend_coefficient(x, y) ==
    IF Len(x) < 2 \/ Len(y) < 2
    THEN [raised |-> FALSE,
          value |-> <<Num(0), IF Len(y) > 0 THEN np_mean(y) ELSE Num(0)>>]
    ELSE polyfit(x, y)

InitTrend ==
    /\ op = "none"
    /\ args \in [x : TrendXs, y : TrendYs]
    /\ ret = NoTable
    /\ PctIdle /\ LoadIdle /\ PerfIdle /\ FileIdle /\ ParIdle /\ AiIdle

TrendCoefficient ==
    /\ op = "none"
    /\ ret' = calculate_trend_coefficient(args.x, args.y)
    /\ op' = "calculate_trend_coefficient"
    /\ UNCHANGED <<args, notCallVars>>

NextTrend == TrendCoefficient

SpecTrend == InitTrend /\ [][NextTrend]_vars

----------------------------------------------------------------------------
(* pages/player_comparison.py: per-player averages and their percentiles *)

ComparisonPlayers == {"A", "B"}

\* a table of n rows with a player name and a distance on every row
ComparisonRows(n) ==
    {("Player Name" :> names) @@ ("Total Distance" :> col) :
        names \in [1..n -> ComparisonPlayers], col \in [1..n -> Cells]}

\* player A with the distances 10 and 12, player B with 8 and 9
ExampleTable ==
    ("Player Name" :> <<"A", "A", "B", "B">>)
    @@ ("Total Distance" :> <<Num(10), Num(12), Num(8), Num(9)>>)

ComparisonTables == UNION {ComparisonRows(n) : n \in 0..MaxRef} \cup {ExampleTable}

\* df[df["Player Name"].isin(selected_players)]
RECURSIVE RowsIn(_, _, _)
RowsIn(names, players, i) ==
    IF i > Len(names) THEN <<>>
    ELSE (IF names[i] \in players THEN <<i>> ELSE <<>>) \o RowsIn(names, players, i + 1)

IsIn(t, players) ==
    LET kept == RowsIn(t["Player Name"], players, 1)
    IN  [c \in DOMAIN t |-> [k \in 1..Len(kept) |-> t[c][kept[k]]]]

\* a mean that counts a missing value as 0
MeanFillZero(s) ==
    RDiv(SumSeq(dropna(s)), Num(Len(s)))

\* the means of an aggregation that fills missing values with 0
GroupByMeanFillZero(t, metrics) ==
    [p \in {t["Player Name"][i] : i \in DOMAIN t["Player Name"]} |->
        [m \in metrics |-> MeanFillZero(IsIn(t, {p})[m])]]

\* df.groupby("Player Name")[available_metrics].mean(): one row per player
\* of the table, the mean of the player's non-missing values per metric
GroupByMean(t, metrics) ==
    [p \in {t["Player Name"][i] : i \in DOMAIN t["Player Name"]} |->
        [m \in metrics |-> Mean(IsIn(t, {p})[m])]]

\* render_overall_performance_comparison down to the percentile loop of
\* display_detailed_metrics_comparison: the averages and, for every selected
\* player who has one, the percentile of each metric
render_overall_performance_comparison(t, players, full) ==
    IF IsEmpty(t) THEN NoTable
    ELSE LET available_metrics == {m \in METRICS : m \in DOMAIN t}
             player_averages == GroupByMean(t, available_metrics)
         IN  [player_averages |-> player_averages,
              percentile_data |->
                  [p \in players \cap DOMAIN player_averages |->
                      display_detailed_metrics_comparison(
                          player_averages[p], full, available_metrics)]]

InitComparison ==
    /\ op = "none"
    /\ args \in [df : ComparisonTables, selected_players : SUBSET ComparisonPlayers \ {{}}]
    /\ ret = NoTable
    /\ PctIdle /\ LoadIdle /\ PerfIdle /\ FileIdle /\ ParIdle /\ AiIdle

\* render_player_comparison: the rows of the selected players are compared
\* against the whole table
PlayerComparison ==
    /\ op = "none"
    /\ ret' = [raised |-> FALSE,
               value |-> render_overall_performance_comparison(
                             IsIn(args.df, args.selected_players),
                             args.selected_players, args.df)]
    /\ op' = "render_overall_performance_comparison"
    /\ UNCHANGED <<args, notCallVars>>

NextComparison == PlayerComparison

SpecComparison == InitComparison /\ [][NextComparison]_vars

----------------------------------------------------------------------------
(* components/metrics.py: calculate_load_score over several columns *)

\* the tables of the basic load score: two weighted columns and a column
\* the score does not weight, each present or absent
BasicLoadCols == {"Total Distance", "Accelerations", "Max Speed"}
BasicLoadCells == {Num(v) : v \in 1..MaxVal} \cup {NaN}

BasicLoadTables ==
    UNION {{[c \in h |-> IF c = "Max Speed" THEN [i \in 1..n |-> Num(1)] ELSE f[c]] :
                f \in [BasicLoadCols \ {"Max Speed"} -> [1..n -> BasicLoadCells]]} :
           h \in SUBSET BasicLoadCols, n \in 1..MaxRows}

InitBasicLoad ==
    /\ op = "none"
    /\ df \in BasicLoadTables
    /\ contribution = NoTable
    /\ load_score = <<>>
    /\ PctIdle /\ PerfIdle /\ FileIdle /\ ParIdle /\ AiIdle /\ CallIdle

NextBasicLoad == LoadScore

SpecBasicLoad == InitBasicLoad /\ [][NextBasicLoad]_vars

----------------------------------------------------------------------------
(* utils/calculations.py: calculate_session_intensity, and the weighted sums
   over a table that has every metric column *)

IntensityMetrics == <<"Max Speed", "Sprint Distance", "High Speed Running", "No of Sprints">>

\* an intensity table whose weights fall short of 1
intensity_metrics_short ==
    [m \in {IntensityMetrics[i] : i \in DOMAIN IntensityMetrics} |->
        CASE m = "Max Speed" -> 30
          [] m = "Sprint Distance" -> 25
          [] m = "High Speed Running" -> 25
          [] m = "No of Sprints" -> 10]

\* weights in hundredths
intensity_metrics ==
    [m \in {IntensityMetrics[i] : i \in DOMAIN IntensityMetrics} |->
        CASE m = "Max Speed" -> 30
          [] m = "Sprint Distance" -> 25
          [] m = "High Speed Running" -> 25
          [] m = "No of Sprints" -> 20]

\* intensity_score += df[metric] * weight
RECURSIVE AddIntensity(_, _, _)
AddIntensity(acc, t, ms) ==
    IF ms = <<>> THEN acc
    ELSE AddIntensity(
            IF Head(ms) \in DOMAIN t
            THEN [i \in DOMAIN acc |->
                     RAdd(acc[i], RMul(t[Head(ms)][i], Weight(intensity_metrics[Head(ms)])))]
            ELSE acc,
            t, Tail(ms))

calculate_session_intensity(t, n) ==
    AddIntensity([i \in 1..n |-> Num(0)], t, IntensityMetrics)

\* one-row tables with all seven metric columns
FullTables == [METRICS -> {<<Num(v)>> : v \in 0..MaxVal}]

InitWeights ==
    /\ op = "none"
    /\ args \in [df : FullTables]
    /\ ret = NoTable
    /\ PctIdle /\ LoadIdle /\ PerfIdle /\ FileIdle /\ ParIdle /\ AiIdle

SessionIntensity ==
    /\ op = "none"
    /\ ret' = [raised |-> FALSE, value |-> calculate_session_intensity(args.df, NRows(args.df))]
    /\ op' = "calculate_session_intensity"
    /\ UNCHANGED <<args, notCallVars>>

FullLoadScore ==
    /\ op = "none"
    /\ ret' = [raised |-> FALSE, value |-> calculate_load_score(args.df, NRows(args.df))]
    /\ op' = "calculate_load_score"
    /\ UNCHANGED <<args, notCallVars>>

NextWeights == SessionIntensity \/ FullLoadScore

SpecWeights == InitWeights /\ [][NextWeights]_vars

----------------------------------------------------------------------------
(* The Metrics Engine operations as calls on table objects: what each call
   writes to, and what a repeated call returns *)

\* a table assigned without .copy(): the new name refers to the argument
DataFrameAlias(name) == name

\* df.copy(): the new name refers to a new object
DataFrameCopy(name) == "copy"

\* an assignment df[metric] = ... through a name: it changes the argument
\* exactly when the name refers to it
WriteThrough(a, target, value) ==
    IF target \in DOMAIN a THEN [a EXCEPT ![target] = value] ELSE a

\* z = (x - mean) / std, held as its numerator and the variance std^2 (the
\* square root is not a rational); 0 for the whole column unless std > 0
ZColumn(col) ==
    IF RLess(Num(0), Variance(col))
    THEN [i \in DOMAIN col |-> [dev |-> RSub(col[i], Mean(col)), var |-> Variance(col)]]
    ELSE [i \in DOMAIN col |-> Num(0)]

calculate_z_scores(t, metrics) ==
    [m \in DOMAIN t |-> IF m \in metrics THEN ZColumn(t[m]) ELSE t[m]]

\* each call gives the arguments as they are after it and the value returned
CallPercentileValues(a) ==
    LET percentile_ref == DataFrameCopy("selected_df")
        value == utils_calculate_percentile_values(a.selected_df, a.full_df, a.metrics)
    IN  [args |-> WriteThrough(a, percentile_ref, value), value |-> value]

CallZScores(a) ==
    LET z_scores_ref == DataFrameCopy("df")
        value == calculate_z_scores(a.df, a.metrics)
    IN  [args |-> WriteThrough(a, z_scores_ref, value), value |-> value]

\* load_score = pd.Series(0, index=df.index) is a new object; += writes to it
CallLoadScore(a) ==
    [args |-> WriteThrough(a, "load_score", calculate_load_score(a.df, NRows(a.df))),
     value |-> calculate_load_score(a.df, NRows(a.df))]

CallLoadScoreAdvanced(a) ==
    [args |-> WriteThrough(a, "load_score", calculate_load_score_advanced(a.df, NRows(a.df))),
     value |-> calculate_load_score_advanced(a.df, NRows(a.df))]

\* score and valid_metrics are local numbers; nothing is assigned to an argument
CallPerformanceScore(a) ==
    [args |-> a, value |-> calculate_performance_score(a.player_data, a.all_data)]

EngineTables == [PctMetrics -> ColumnsOf(1) \cup ColumnsOf(2)]

EngineCalls ==
    [selected_df : EngineTables, full_df : EngineTables, metrics : {PctMetrics}]
    \cup [df : EngineTables, metrics : {PctMetrics}]
    \cup [df : EngineTables]
    \cup [player_data : [PctMetrics -> Cells], all_data : EngineTables]

InitEngine ==
    /\ op = "none"
    /\ args \in EngineCalls
    /\ ret = <<>>
    /\ PctIdle /\ LoadIdle /\ PerfIdle /\ FileIdle /\ ParIdle /\ AiIdle

\* the first call and the call repeated on the same arguments
EngineCall(name, params, Call(_)) ==
    /\ DOMAIN args = params
    /\ op \in {"none", name}
    /\ Len(ret) < 2
    /\ args' = Call(args).args
    /\ ret' = Append(ret, Call(args).value)
    /\ op' = name
    /\ UNCHANGED notCallVars

EnginePercentileValues ==
    EngineCall("calculate_percentile_values", {"selected_df", "full_df", "metrics"},
               CallPercentileValues)
EngineZScores == EngineCall("calculate_z_scores", {"df", "metrics"}, CallZScores)
EngineLoadScore == EngineCall("calculate_load_score", {"df"}, CallLoadScore)
EngineLoadScoreAdvanced ==
    EngineCall("calculate_load_score_advanced", {"df"}, CallLoadScoreAdvanced)
EnginePerformanceScore ==
    EngineCall("calculate_performance_score", {"player_data", "all_data"}, CallPerformanceScore)

NextEngine ==
    \/ EnginePercentileValues
    \/ EngineZScores
    \/ EngineLoadScore
    \/ EngineLoadScoreAdvanced
    \/ EnginePerformanceScore

SpecEngine == InitEngine /\ [][NextEngine]_vars

----------------------------------------------------------------------------
(* The five report pages down to their first test of the loaded data *)

ReportTypes == {"Match Report", "Weekly Training Report", "Daily Training Report",
                "Compare Players", "Player Profile"}
DataSources == {"Match Data", "Training Data", "Combined"}

\* the files a team's mappings point to: name -> file, possibly no name
TeamFiles == UNION {[1..k -> {MissingFile, GoodFileA, NamelessFile}] : k \in 0..MaxFiles}

\* [load_data(path) for path in files.values()]
LoadAll(files) == [n \in DOMAIN files |-> load_data(files[n]).table]

\* pd.concat(objs): ValueError (No objects to concatenate) on an empty list
pd_concat(objs) ==
    IF objs = <<>> THEN [raised |-> TRUE, table |-> NoTable]
    ELSE [raised |-> FALSE, table |-> Concat(objs)]

\* a page ends with a message and an early return, or goes on to render
Shown(kind) == [raised |-> FALSE, value |-> kind]
Raised == [raised |-> TRUE, value |-> NoTable]

\* pages/match_report.py, with the default selection All Matches (Average)
render_match_report(team_config) ==
    IF team_config.match_files = <<>> THEN Shown("warning")
    ELSE IF IsEmpty(pd_concat(LoadAll(team_config.match_files)).table) THEN Shown("error")
    ELSE Shown("rendered")

\* pages/training_weekly.py, with the default selection of every session
render_weekly_training_report(team_config) ==
    IF team_config.training_files = <<>> THEN Shown("warning")
    ELSE IF \A n \in DOMAIN team_config.training_files :
                IsEmpty(LoadAll(team_config.training_files)[n])
         THEN Shown("warning")
    ELSE Shown("rendered")

\* pages/training_daily.py, with the default selection of the first session
render_daily_training_report(team_config) ==
    IF team_config.training_files = <<>> THEN Shown("warning")
    ELSE IF IsEmpty(LoadAll(team_config.training_files)[1]) THEN Shown("error")
    ELSE Shown("rendered")

\* pages/player_comparison.py: load_comparison_data and the tests after it
load_comparison_data(data_source, match_files, training_files) ==
    IF data_source = "Match Data" THEN load_multiple_files(match_files)
    ELSE IF data_source = "Training Data" THEN load_multiple_files(training_files)
    ELSE Concat(<<load_multiple_files(match_files), load_multiple_files(training_files)>>)

render_player_comparison(team_config, data_source) ==
    LET t == load_comparison_data(data_source, team_config.match_files,
                                  team_config.training_files)
    IN  IF IsEmpty(t) THEN Shown("warning")
        ELSE IF Cardinality({t["Player Name"][i] : i \in DOMAIN t["Player Name"]}) < 2
             THEN Shown("info")
        ELSE Shown("rendered")

\* pages/player_profile.py: load_all_player_data concatenates the list of
\* loaded tables of each mapping
load_all_player_data(match_files, training_files) ==
    LET all_match_data == pd_concat(LoadAll(match_files))
        all_training_data == pd_concat(LoadAll(training_files))
    IN  IF all_match_data.raised \/ all_training_data.raised
        THEN [raised |-> TRUE, table |-> NoTable]
        ELSE pd_concat(<<all_match_data.table, all_training_data.table>>)

render_player_profile(team_config) ==
    LET all == load_all_player_data(team_config.match_files, team_config.training_files)
    IN  IF all.raised THEN Raised
        ELSE IF IsEmpty(all.table) THEN Shown("warning")
        ELSE Shown("rendered")

\* app.py lines 49-59: the route to the selected report
route(report_type, team_config, data_source) ==
    CASE report_type = "Match Report" -> render_match_report(team_config)
      [] report_type = "Weekly Training Report" -> render_weekly_training_report(team_config)
      [] report_type = "Daily Training Report" -> render_daily_training_report(team_config)
      [] report_type = "Compare Players" -> render_player_comparison(team_config, data_source)
      [] report_type = "Player Profile" -> render_player_profile(team_config)

InitReports ==
    /\ op = "none"
    /\ args \in [team_config : [match_files : TeamFiles, training_files : TeamFiles],
                 report_type : ReportTypes, data_source : DataSources]
    /\ ret = NoTable
    /\ PctIdle /\ LoadIdle /\ PerfIdle /\ FileIdle /\ ParIdle /\ AiIdle

RenderReport ==
    /\ op = "none"
    /\ ret' = route(args.report_type, args.team_config, args.data_source)
    /\ op' = "render_report"
    /\ UNCHANGED <<args, notCallVars>>

NextReports == RenderReport

SpecReports == InitReports /\ [][NextReports]_vars

----------------------------------------------------------------------------
(* utils/calculations.py: calculate_recovery_time *)

\* load scores around the two thresholds, and ages around the two ages the
\* code names; an age is <<a>>, and <<>> is None, the age that was not given
RecoveryLoads == {Num(v) : v \in {0, 60, 61, 80, 81, 100}} \cup {NaN}
RecoveryAges == {<<>>} \cup {<<a>> : a \in {0} \cup (28..38)}

\* if age: ... (None and 0 are falsy)
AgeGiven(age) == age # <<>> /\ age[1] # 0

calculate_recovery_time(load, age) ==
    LET load_part ==
            IF RLess(Num(80), load) THEN 24
            ELSE IF RLess(Num(60), load) THEN 12
            ELSE 0
        age_part ==
            IF AgeGiven(age)
            THEN IF age[1] > 30 THEN 12
                 ELSE IF age[1] > 35 THEN 24
                 ELSE 0
            ELSE 0
    IN  24 + load_part + age_part

InitRecovery ==
    /\ op = "none"
    /\ args \in [load_score : RecoveryLoads, age : RecoveryAges]
    /\ ret = NoTable
    /\ PctIdle /\ LoadIdle /\ PerfIdle /\ FileIdle /\ ParIdle /\ AiIdle

RecoveryTime ==
    /\ op = "none"
    /\ ret' = [raised |-> FALSE, value |-> calculate_recovery_time(args.load_score, args.age)]
    /\ op' = "calculate_recovery_time"
    /\ UNCHANGED <<args, notCallVars>>

NextRecovery == RecoveryTime

SpecRecovery == InitRecovery /\ [][NextRecovery]_vars

----------------------------------------------------------------------------
(* app.py: main, with the team buttons of pages/landing.py and the Back
   button of components/sidebar.py.  One run of the script is one step; the
   session state is kept between the runs. *)

MaxRuns == 4

\* the keys of TEAMS_CONFIG
TEAMS_CONFIG_KEYS == {"SSA Swarm USL2", "SSA Swarm USLW",
                      "SSA Swarm MLS Next U19", "SSA Swarm GA U19"}

\* st.session_state.selected_team: no such key yet, None, a configured team,
\* or a name kept by a session whose team is not configured
NoKey == "no key"
None == "None"
SelectedTeams == {NoKey, None, "Former Team"} \cup TEAMS_CONFIG_KEYS

\* the buttons of a run: none pressed, Select <team>, or Back to Teams
NoPress == "no press"
Back == "Back to Teams"
SelectButton(team_name) == team_name

\* a main that never misses a configuration
ConfigurationAlwaysFound(selected_team) == FALSE

\* TEAMS_CONFIG.get(selected_team) is falsy
NotConfigured(selected_team) == selected_team \notin TEAMS_CONFIG_KEYS

\* pages/landing.py: the pressed team button stores the team and asks for a
\* rerun
render_landing_page(pressed) ==
    IF pressed \in TEAMS_CONFIG_KEYS
    THEN [selected_team |-> pressed, rerun |-> TRUE]
    ELSE [selected_team |-> None, rerun |-> FALSE]

\* components/sidebar.py: the Back button clears the team and asks for a
\* rerun, which ends the run before anything else is rendered
setup_sidebar(selected_team, pressed) ==
    IF pressed = Back
    THEN [selected_team |-> None, rerun |-> TRUE]
    ELSE [selected_team |-> selected_team, rerun |-> FALSE]

\* one run of main: what it rendered, whether it showed the error, whether
\* it asked for a rerun, and the team it left in the session state
main(session_team, pressed, report_type) ==
    LET selected_team == IF session_team = NoKey THEN None ELSE session_team
    IN  IF selected_team = None
        THEN LET landing == render_landing_page(pressed)
             IN  [before |-> selected_team, rendered |-> "landing", error |-> FALSE,
                  rerun |-> landing.rerun, after |-> landing.selected_team]
        ELSE IF NotConfigured(selected_team)
        THEN [before |-> selected_team, rendered |-> "nothing", error |-> TRUE,
              rerun |-> TRUE, after |-> None]
        ELSE LET sidebar == setup_sidebar(selected_team, pressed)
             IN  [before |-> selected_team,
                  rendered |-> IF sidebar.rerun THEN "nothing" ELSE report_type,
                  error |-> FALSE,
                  rerun |-> sidebar.rerun, after |-> sidebar.selected_team]

\* the buttons the browser shows after the runs so far: those of the page
\* the last run rendered to its end
Buttons(runs) ==
    IF runs = <<>> \/ runs[Len(runs)].rerun THEN {}
    ELSE IF runs[Len(runs)].rendered = "landing" THEN TEAMS_CONFIG_KEYS
    ELSE {Back}

InitApp ==
    /\ op = "none"
    /\ args \in [selected_team : SelectedTeams]
    /\ ret = <<>>
    /\ PctIdle /\ LoadIdle /\ PerfIdle /\ FileIdle /\ ParIdle /\ AiIdle

\* a run of the script: the first one, a requested rerun, or a rerun caused
\* by a button or by the report selection
Main ==
    /\ Len(ret) < MaxRuns
    /\ \E pressed \in Buttons(ret) \cup {NoPress}, report_type \in ReportTypes :
           LET run == main(args.selected_team, pressed, report_type)
           IN  /\ ret' = Append(ret, run)
               /\ args' = [selected_team |-> run.after]
    /\ op' = "main"
    /\ UNCHANGED notCallVars

NextApp == Main

SpecApp == InitApp /\ [][NextApp]_vars

----------------------------------------------------------------------------
(* The percentile of two targets against a population, and against the
   population with one more row *)

\* the reference table with one more row holding the value x
WithRow(t, x) == [m \in DOMAIN t |-> Append(t[m], x)]

\* a player whose rows are the first k rows of the table
FirstRows(t, k) == [m \in DOMAIN t |-> SubSeq(t[m], 1, k)]

MonoPopulations == [PctMetrics -> UNION {ColumnsOf(n) : n \in 1..MaxPop}]

InitMono ==
    /\ op = "none"
    /\ args \in [selected_df : [PctMetrics -> ColumnsOf(2)],
                 full_df : MonoPopulations,
                 added : Cells]
    /\ ret = NoTable
    /\ PctIdle /\ LoadIdle /\ PerfIdle /\ FileIdle /\ ParIdle /\ AiIdle

\* the two rows of the selected table ranked by calculate_percentile_values
MonoTable ==
    /\ op = "none"
    /\ ret' = [before |-> utils_calculate_percentile_values(
                              args.selected_df, args.full_df, PctMetrics)[PctMetric],
               after |-> utils_calculate_percentile_values(
                              args.selected_df, WithRow(args.full_df, args.added),
                              PctMetrics)[PctMetric]]
    /\ op' = "utils.calculate_percentile_values"
    /\ UNCHANGED <<args, notCallVars>>

\* two players ranked by calculate_player_percentiles: the one with the
\* first row and the one with both rows
MonoPlayer ==
    /\ op = "none"
    /\ ret' = [before |-> [k \in 1..2 |->
                   calculate_player_percentiles(FirstRows(args.selected_df, k),
                       args.full_df, PctMetrics)[PctMetric]],
               after |-> [k \in 1..2 |->
                   calculate_player_percentiles(FirstRows(args.selected_df, k),
                       WithRow(args.full_df, args.added), PctMetrics)[PctMetric]]]
    /\ op' = "calculate_player_percentiles"
    /\ UNCHANGED <<args, notCallVars>>

NextMono == MonoTable \/ MonoPlayer

SpecMono == InitMono /\ [][NextMono]_vars

----------------------------------------------------------------------------
(* calculate_load_score_advanced on tables of three rows with any of the six
   weighted columns *)

\* the columns: rising, falling, with the minimum in the middle, and constant
AdvancedColumns ==
    {<<Num(0), Num(1), Num(MaxVal)>>, <<Num(MaxVal), Num(1), Num(0)>>,
     <<Num(1), Num(0), Num(MaxVal)>>, <<Num(1), Num(1), Num(1)>>}

AdvancedTables ==
    UNION {[cols -> AdvancedColumns] :
              cols \in SUBSET {AdvancedMetrics[i] : i \in DOMAIN AdvancedMetrics}}

InitAdvanced ==
    /\ op = "none"
    /\ df \in AdvancedTables
    /\ contribution = NoTable
    /\ load_score = <<>>
    /\ PctIdle /\ PerfIdle /\ FileIdle /\ ParIdle /\ AiIdle /\ CallIdle

NextAdvanced == LoadScoreAdvanced

SpecAdvanced == InitAdvanced /\ [][NextAdvanced]_vars

----------------------------------------------------------------------------
(* Properties of the percentile operations *)

TableOps == {"utils.calculate_percentile_values", "metrics.calculate_percentile_values"}
DictOps == {"calculate_player_percentiles", "display_detailed_metrics_comparison"}

\* the non-missing values of the reference column of metric m
RefPop(m) == SelectSeq(full_df[m], LAMBDA x : x[2] # 0)

HasRefPop(m) == m \in DOMAIN full_df /\ RefPop(m) # <<>>

StrictlyBelow(R, v) == {j \in DOMAIN R : RLess(R[j], v)}

\* C1: for a non-empty reference list R of non-missing values and every
\* target value v, calculate_percentile_values (both implementations) gives
\* 100 * |{r in R : r < v}| / |R|; values equal to v are not counted.
C1_StrictLessFraction ==
    op \in TableOps =>
        \A m \in PctMetrics : HasRefPop(m) =>
            \A i \in DOMAIN selected_df[m] :
                REq(percentile_df[m][i],
                    <<100 * Cardinality(StrictlyBelow(RefPop(m), selected_df[m][i])),
                      Len(RefPop(m))>>)

\* a tie in the reference list with a value strictly below it: the result is
\* strictly between 0 and 100
C1_Witness ==
    /\ op \in TableOps
    /\ HasRefPop(PctMetric)
    /\ \E i \in DOMAIN selected_df[PctMetric] :
        /\ \E j \in DOMAIN RefPop(PctMetric) : REq(RefPop(PctMetric)[j], selected_df[PctMetric][i])
        /\ RLess(Num(0), percentile_df[PctMetric][i])
        /\ RLess(percentile_df[PctMetric][i], Num(100))

IsMinOf(v, R) == (\E j \in DOMAIN R : REq(R[j], v)) /\ (\A j \in DOMAIN R : RLeq(v, R[j]))

AboveAll(v, R) == \A j \in DOMAIN R : RLess(R[j], v)

PercentileRange(p, v, R) ==
    /\ RLeq(Num(0), p) /\ RLeq(p, Num(100))
    /\ IsMinOf(v, R) => REq(p, Num(0))
    /\ REq(p, Num(100)) <=> AboveAll(v, R)

\* the value a dict operation ranks: the mean of the selected rows
PlayerValue(m) ==
    LET s == SelectSeq(selected_df[m], LAMBDA x : x[2] # 0)
    IN  IF s = <<>> THEN NaN ELSE <<SumSeq(s)[1], Len(s)>>

\* C2: against a non-empty reference population the percentile lies in
\* [0,100], is 0 for the minimum of the population and is 100 exactly when
\* the value is strictly greater than every reference value.
C2_RangeAndEndpoints ==
    \A m \in PctMetrics : HasRefPop(m) =>
        /\ op \in TableOps =>
            \A i \in DOMAIN selected_df[m] :
                PercentileRange(percentile_df[m][i], selected_df[m][i], RefPop(m))
        /\ op \in DictOps =>
            PercentileRange(percentiles[m], PlayerValue(m), RefPop(m))

\* a player's mean above every reference value, ranked at 100, while the
\* reference column also holds a missing value
C2_Witness ==
    /\ op = "calculate_player_percentiles"
    /\ HasRefPop(PctMetric)
    /\ Len(RefPop(PctMetric)) < Len(full_df[PctMetric])
    /\ AboveAll(PlayerValue(PctMetric), RefPop(PctMetric))
    /\ REq(percentiles[PctMetric], Num(100))

\* C3: with an empty reference population (the column exists and holds no
\* non-missing value) the percentile computation returns 0 for every target.
C3_EmptyReferenceGivesZero ==
    \A m \in PctMetrics : (m \in DOMAIN full_df /\ RefPop(m) = <<>>) =>
        /\ op \in TableOps =>
            \A i \in DOMAIN selected_df[m] : REq(percentile_df[m][i], Num(0))
        /\ op \in DictOps => REq(percentiles[m], Num(0))

\* what the implementations return for an empty reference population: the
\* guarded one leaves the raw values in place, the others yield NaN
C3_CodeBehaviour ==
    \A m \in PctMetrics : (m \in DOMAIN full_df /\ RefPop(m) = <<>>) =>
        /\ op = "utils.calculate_percentile_values" => percentile_df[m] = selected_df[m]
        /\ op = "metrics.calculate_percentile_values" =>
            \A i \in DOMAIN selected_df[m] :
                percentile_df[m][i] = IF NotNa(selected_df[m][i]) THEN NaN ELSE Num(0)
        /\ op \in DictOps => IsNaN(percentiles[m])

----------------------------------------------------------------------------
(* Properties of the load scores *)

\* a column without missing cells whose values are all equal (max == min)
IsConstant(col) ==
    /\ col # <<>>
    /\ \A i \in DOMAIN col : NotNa(col[i]) /\ REq(col[i], col[1])

NoMissing(t) == \A c \in DOMAIN t : \A i \in DOMAIN t[c] : NotNa(t[c][i])

\* C4: in the advanced load score a weighted column that is constant across
\* all rows contributes exactly 0 to every row, and a table without missing
\* cells gets no NaN score.
C4_ConstantColumnContributesZero ==
    op = "calculate_load_score_advanced" =>
        /\ \A m \in DOMAIN contribution :
            IsConstant(df[m]) => \A i \in DOMAIN df[m] : REq(contribution[m][i], Num(0))
        /\ NoMissing(df) => \A i \in DOMAIN load_score : NotNa(load_score[i])

\* what the code does: 0 / 0 makes the contribution of a constant column, and
\* with it the score of every row, NaN
C4_CodeBehaviour ==
    op = "calculate_load_score_advanced" =>
        \A m \in DOMAIN contribution :
            IsConstant(df[m]) =>
                \A i \in DOMAIN df[m] : IsNaN(contribution[m][i]) /\ IsNaN(load_score[i])

----------------------------------------------------------------------------
(* Properties of the performance score *)

WeightTable == DOMAIN PERFORMANCE_WEIGHTS

\* the mean of the non-missing values of a population column
PopMean(m) ==
    LET s == SelectSeq(all_data[m], LAMBDA x : x[2] # 0)
    IN  IF s = <<>> THEN NaN ELSE Rat(SumSeq(s)[1], SumSeq(s)[2] * Len(s))

\* the player's value on every metric equals the population mean
PlayerAtMean ==
    /\ DOMAIN player_data \cap WeightTable # {}
    /\ \A m \in DOMAIN player_data :
        m \in DOMAIN all_data /\ REq(player_data[m], PopMean(m))

\* metrics present in the player's averages, the population and the weights
Present == DOMAIN player_data \cap DOMAIN all_data \cap WeightTable

PresentPositive == {m \in Present : RLess(Num(0), PopMean(m))}

RECURSIVE SumRatio(_)
SumRatio(S) ==
    IF S = {} THEN Num(0)
    ELSE LET m == CHOOSE x \in S : TRUE
         IN  RAdd(RMul(Rat(PERFORMANCE_WEIGHTS[m], 100), RDiv(player_data[m], PopMean(m))),
                  SumRatio(S \ {m}))

RECURSIVE SumWeight(_)
SumWeight(S) ==
    IF S = {} THEN 0
    ELSE LET m == CHOOSE x \in S : TRUE IN PERFORMANCE_WEIGHTS[m] + SumWeight(S \ {m})

\* 100 * (sum over S of weight * player_value / population_mean) / (sum of
\* the weights of S), and 0 for an empty S
WeightedRatio(S) ==
    IF S = {} THEN Num(0)
    ELSE RMul(Num(100), RDiv(SumRatio(S), Rat(SumWeight(S), 100)))

SameNumber(a, b) == (IsNaN(a) /\ IsNaN(b)) \/ REq(a, b)

\* C5 as stated: a player at the population mean on every metric scores
\* exactly 100, for any population.
C5_MeanPlayerScores100 ==
    (op = "calculate_performance_score" /\ PlayerAtMean) => REq(score, Num(100))

\* C5 as amended: a player at the population mean on every metric scores
\* exactly 100 when at least one of those means is positive, and 0 when none is.
C5_MeanPlayerScores100IfPositive ==
    (op = "calculate_performance_score" /\ PlayerAtMean) =>
        IF PresentPositive # {} THEN REq(score, Num(100)) ELSE REq(score, Num(0))

\* a player at the mean on two metrics, one of them with mean 0
C5_Witness ==
    /\ op = "calculate_performance_score"
    /\ PlayerAtMean
    /\ Cardinality(Present) = 2
    /\ Cardinality(PresentPositive) = 1
    /\ REq(score, Num(100))

\* C6 as stated: the score is the weighted ratio over the metrics present in
\* the player's averages, the population table and the weight table,
\* normalized by the weights of exactly those metrics; 0 when there is none.
C6_WeightedRatioOverPresent ==
    op = "calculate_performance_score" => SameNumber(score, WeightedRatio(Present))

\* C6 as amended: the sum and the normalization run over the present metrics
\* whose population mean is positive; 0 when there is none.
C6_WeightedRatioOverPositive ==
    op = "calculate_performance_score" => SameNumber(score, WeightedRatio(PresentPositive))

\* a player off the mean on a counted metric while another present metric
\* has mean 0 and is left out
C6_Witness ==
    /\ op = "calculate_performance_score"
    /\ Cardinality(Present) = 2
    /\ Cardinality(PresentPositive) = 1
    /\ NotNa(score)
    /\ ~REq(score, Num(100))
    /\ ~REq(score, Num(0))

----------------------------------------------------------------------------
(* Properties of the Tabular Loader *)

\* the header texts of a file, stripped
HeaderOf(f) == {StripName(r) : r \in DOMAIN f.cols}

\* a path that does not exist, a file read_csv cannot parse, or a file
\* lacking the Player Name or the Session Type column
Unloadable(f) ==
    \/ ~f.exists
    \/ ~f.parses
    \/ "Player Name" \notin HeaderOf(f)
    \/ "Session Type" \notin HeaderOf(f)

\* C7: load_data never raises to its caller; for a missing path, an
\* unparseable file or a file lacking Player Name or Session Type it returns
\* an empty table.
C7_LoadDataNeverRaises ==
    op = "load_data" =>
        /\ ~loaded.raised
        /\ Unloadable(file) => loaded.table = <<>>

\* a parsed file with data rows and a Player Name column but no Session
\* Type column: the KeyError is turned into an empty table
C7_Witness ==
    /\ op = "load_data"
    /\ file.exists /\ file.parses
    /\ "Player Name" \in HeaderOf(file)
    /\ "Session Type" \notin HeaderOf(file)
    /\ \E c \in DOMAIN file.cols : Len(file.cols[c]) > 0
    /\ ~loaded.raised
    /\ loaded.table = <<>>

\* the number of rows of a file that carry a player name
NamedRows(f) ==
    LET c == CHOOSE r \in DOMAIN f.cols : StripName(r) = "Player Name"
    IN  Cardinality({i \in DOMAIN f.cols[c] : f.cols[c][i] # ""})

\* a name's own table: empty for an unloadable file, else the file's columns
\* and a timestamp, with one row per named row of the file
IsOwnTable(t, f) ==
    IF Unloadable(f) THEN t = <<>>
    ELSE /\ DOMAIN t = HeaderOf(f) \cup {"timestamp"}
         /\ \A c \in DOMAIN t : Len(t[c]) = NamedRows(f)

\* C8: in load_multiple_files_parallel the failure of one file's load does
\* not abort or alter the other loads: the failed name is mapped to an empty
\* table and every other name to its own loaded table.
C8_FailureIsIsolated ==
    par_pc = "returned" =>
        \A n \in DOMAIN file_dict :
            /\ n \in DOMAIN results
            /\ IsOwnTable(results[n], file_dict[n])

\* a call that returned with a failed name beside a loaded one
C8_Witness ==
    /\ par_pc = "returned"
    /\ \E n, k \in DOMAIN file_dict :
        /\ Unloadable(file_dict[n]) /\ results[n] = <<>>
        /\ ~Unloadable(file_dict[k])
        /\ "Player Name" \in DOMAIN results[k]
        /\ Len(results[k]["Player Name"]) > 0

\* C9: load_multiple_files_parallel returns only after every submitted load
\* has completed, and under every interleaving the returned mapping has
\* exactly the input names as keys, each mapped to the table that loading
\* that name's path alone produces.
C9_ReturnsAfterAllLoads ==
    par_pc = "returned" =>
        /\ \A n \in DOMAIN futures : futures[n].state = "finished"
        /\ DOMAIN results = DOMAIN file_dict
        /\ \A n \in DOMAIN file_dict : results[n] = load_data(file_dict[n]).table

\* two loads on a pool of one worker, returned with both names
C9_Witness ==
    /\ par_pc = "returned"
    /\ max_workers = 1
    /\ Cardinality(DOMAIN file_dict) = 2
    /\ DOMAIN results = DOMAIN file_dict
    /\ results[1] # results[2]

----------------------------------------------------------------------------
(* Properties of the text-generation boundary *)

FailureMessages ==
    {NotInstalled} \cup {CheckKey(e) : e \in ErrorTexts}
    \cup {LatestLibrary(e) : e \in {"cannot import name OpenAI", "client construction failed"}}

\* C10: get_ai_coach_insights never raises: with an empty credential it
\* returns the fallback message without invoking the provider, and on any
\* provider failure (import, client construction, either model call) it
\* returns an explanatory string.
C10_NeverRaises ==
    /\ ai_pc # "raised"
    /\ (ai_pc = "returned" /\ api_key = "") => (ai_result = EnterKey /\ calls = <<>>)
    /\ (ai_pc = "returned" /\ err # "") => ai_result \in FailureMessages

\* what the code does: the only exception that leaves the call is one that
\* import openai raises and that is no ImportError
C10_RaisesOnlyOnBrokenImport ==
    /\ ai_pc = "raised" => (lib = "broken" /\ calls = <<"import openai">>)
    /\ (ai_pc = "returned" /\ api_key = "") => (ai_result = EnterKey /\ calls = <<>>)
    /\ (ai_pc = "returned" /\ err # "") => ai_result \in FailureMessages

----------------------------------------------------------------------------
(* Properties of the rows and cells of a loaded table *)

\* the raw column of a file whose stripped header text is c
RawColumn(f, c) == f.cols[CHOOSE r \in DOMAIN f.cols : StripName(r) = c]

\* the input rows that carry a player name
NamedIndices(f) ==
    {i \in DOMAIN RawColumn(f, "Player Name") : RawColumn(f, "Player Name")[i] # ""}

\* the number of rows of a table
Height(t) == IF DOMAIN t = {} THEN 0 ELSE Len(t[CHOOSE c \in DOMAIN t : TRUE])

\* the input row every output row came from (the index label the loader
\* keeps): strictly increasing, so no row is repeated or reordered
SourceRows(t) == t["timestamp"]

Increasing(q) == \A j, k \in DOMAIN q : j < k => q[j] < q[k]

\* C11: every row of a table returned by load_data has a non-empty player
\* name; the rows with no player name in the input are dropped and no other
\* row is dropped.
C11_OnlyNamelessRowsDropped ==
    (op = "load_data" /\ ~Unloadable(file)) =>
        LET t == loaded.table
        IN  /\ \A k \in DOMAIN t["Player Name"] : t["Player Name"][k] # ""
            /\ Increasing(SourceRows(t))
            /\ {SourceRows(t)[k] : k \in DOMAIN SourceRows(t)} = NamedIndices(file)
            /\ \A k \in DOMAIN SourceRows(t) :
                   t["Player Name"][k] = RawColumn(file, "Player Name")[SourceRows(t)[k]]

\* a file whose first row has no player name and whose second row has one:
\* the loaded table is the second row alone
C11_Witness ==
    /\ op = "load_data"
    /\ ~Unloadable(file)
    /\ RawColumn(file, "Player Name") = <<"", "A">>
    /\ loaded.table["Player Name"] = <<"A">>
    /\ SourceRows(loaded.table) = <<2>>

\* the value a metric cell text stands for: the number it spells, missing
\* for an empty field
ParsedValue(x) == IF x = "1" THEN <<1, 1>> ELSE <<0, 0>>

Unparseable(x) == x = "x"

\* the title-cased session text
SessionText(x) == IF x = " first half" THEN "First Half" ELSE x

\* C12: a non-numeric cell of a metric column becomes a missing value for
\* that cell only: load_data still returns a non-empty table containing the
\* row, and the other cells of the row and of the column keep their parsed
\* values.
C12_UnparseableCellOnlyMissing ==
    (op = "load_data" /\ ~Unloadable(file) /\ "Total Distance" \in HeaderOf(file)) =>
        LET t == loaded.table
            raw == RawColumn(file, "Total Distance")
        IN  /\ Height(t) = Cardinality(NamedIndices(file))
            /\ \A k \in DOMAIN SourceRows(t) :
                   LET i == SourceRows(t)[k]
                   IN  /\ i \in NamedIndices(file)
                       /\ IF Unparseable(raw[i])
                          THEN t["Total Distance"][k] = <<0, 0>>
                          ELSE t["Total Distance"][k] = ParsedValue(raw[i])
                       /\ t["Player Name"][k] = RawColumn(file, "Player Name")[i]
                       /\ t["Session Type"][k] = SessionText(RawColumn(file, "Session Type")[i])

\* two named rows, the first with a non-numeric distance and the second with
\* the distance 1: the table has both rows, the first distance missing and
\* the second 1
C12_Witness ==
    /\ op = "load_data"
    /\ ~Unloadable(file)
    /\ "Total Distance" \in HeaderOf(file)
    /\ RawColumn(file, "Total Distance") = <<"x", "1">>
    /\ RawColumn(file, "Player Name") = <<"A", "A">>
    /\ loaded.table["Total Distance"] = <<(<<0, 0>>), (<<1, 1>>)>>
    /\ loaded.table["Player Name"] = <<"A", "A">>

----------------------------------------------------------------------------
(* Properties of load_multiple_files *)

\* the rows of t tagged with the name n
TaggedRows(t, n) ==
    IF "Source" \in DOMAIN t THEN {k \in DOMAIN t["Source"] : t["Source"][k] = n} ELSE {}

\* the j-th of a set of row positions
NthOf(S, j) == CHOOSE k \in S : Cardinality({i \in S : i < k}) = j - 1

\* the table load_data gives for the file of the name n
OwnTable(fd, n) == load_data(fd[n]).table

\* C13: load_multiple_files returns one table in which every row carries the
\* name of the file it came from as its Source, the rows of all successfully
\* loaded files are present, and a metric column absent from one file is
\* missing only for the rows of that file while the rows of files that have
\* the column keep their values.
C13_SourceTaggedUnion ==
    op = "load_multiple_files" =>
        LET fd == args.file_dict
            t == ret.value
        IN  /\ ~ret.raised
            /\ "Source" \in DOMAIN t => \A k \in DOMAIN t["Source"] : t["Source"][k] \in DOMAIN fd
            /\ \A n \in DOMAIN fd :
                  LET own == OwnTable(fd, n)
                      S == TaggedRows(t, n)
                  IN  /\ Cardinality(S) = Height(own)
                      /\ Height(own) > 0 => DOMAIN own \subseteq DOMAIN t
                      /\ \A j \in 1..Height(own) : \A c \in DOMAIN t \ {"Source"} :
                            t[c][NthOf(S, j)] =
                                IF c \in DOMAIN own THEN own[c][j] ELSE <<0, 0>>

\* a file with the distance 1 and a file without the Total Distance column:
\* two rows tagged 1 and 2, the distance 1 kept and the other missing
C13_Witness ==
    /\ op = "load_multiple_files"
    /\ args.file_dict = <<GoodFileA, NoMetricFile>>
    /\ ret.value["Source"] = <<1, 2>>
    /\ ret.value["Total Distance"] = <<(<<1, 1>>), (<<0, 0>>)>>
    /\ ret.value["Player Name"] = <<"A", "B">>

----------------------------------------------------------------------------
(* Properties of the computations over absent metric columns *)

\* the metric columns a displayed figure depends on
DependsOn(k) ==
    CASE k = "Distance" -> {"Total Distance"}
      [] k = "Max Speed" -> {"Max Speed"}
      [] k = "Sprints" -> {"No of Sprints"}
      [] k = "HSR" -> {"High Speed Running"}
      [] k = "Work Rate" -> {"Accelerations", "Decelerations"}

SevenMetrics == {"Total Distance", "Max Speed", "No of Sprints", "Sprint Distance",
                 "Accelerations", "Decelerations", "High Speed Running"}

\* C14: a metric column that is absent from a table is treated as
\* unavailable by every computation that depends on it: the computation
\* skips that metric, neither failing nor substituting zero for it.
C14_AbsentMetricIsSkipped ==
    /\ op = "display_match_metrics" =>
          /\ ~ret.raised
          /\ \A k \in DOMAIN ret.value :
                DependsOn(k) \subseteq DOMAIN args.df \/ ret.value[k] # <<0, 1>>
    /\ op = "render_player_strengths" =>
          /\ ~ret.raised
          /\ DOMAIN ret.value = SevenMetrics \cap DOMAIN args.df

\* what the code does: display_match_metrics shows 0 for a figure whose
\* column is absent, and the percentile computation of the player profile
\* raises KeyError unless all seven metric columns are present
C14_CodeBehaviour ==
    /\ op = "display_match_metrics" =>
          /\ ~ret.raised
          /\ DOMAIN ret.value = {"Distance", "Max Speed", "Sprints", "HSR", "Work Rate"}
          /\ \A k \in DOMAIN ret.value :
                ~(DependsOn(k) \subseteq DOMAIN args.df) => ret.value[k] = <<0, 1>>
    /\ op = "render_player_strengths" =>
          /\ ret.raised <=> ~(SevenMetrics \subseteq DOMAIN args.df)
          /\ ~ret.raised => DOMAIN ret.value = SevenMetrics

----------------------------------------------------------------------------
(* Properties of the fatigue index *)

\* the arguments are numbers (not NaN) and the std is not 0, so z is defined
ZDefined ==
    /\ args.current_load[2] = 1 /\ args.historical_avg[2] = 1
    /\ args.historical_std[2] = 1 /\ args.historical_std[1] > 0

\* current - mean, and the std, as integers; z = Deviation / Std
Deviation == args.current_load[1] - args.historical_avg[1]
Std == args.historical_std[1]

\* C15: calculate_fatigue_index returns exactly one of the four labels for
\* every input: Normal when the historical std is 0; otherwise, with
\* z = (current - mean) / std, High Risk when z > 2, Moderate Risk when
\* 1 < z <= 2, Under-loaded when z < -1, and Normal when -1 <= z <= 1.
C15_FatigueLabels ==
    op = "calculate_fatigue_index" =>
        /\ ~ret.raised
        /\ ret.value \in {"Normal", "High Risk", "Moderate Risk", "Under-loaded"}
        /\ args.historical_std = <<0, 1>> => ret.value = "Normal"
        /\ ZDefined =>
              /\ Deviation > 2 * Std => ret.value = "High Risk"
              /\ (Std < Deviation /\ Deviation <= 2 * Std) => ret.value = "Moderate Risk"
              /\ Deviation < 0 - Std => ret.value = "Under-loaded"
              /\ (0 - Std <= Deviation /\ Deviation <= Std) => ret.value = "Normal"

\* z is exactly 2 (current 3, mean 1, std 1): Moderate Risk, not High Risk
C15_Witness ==
    /\ op = "calculate_fatigue_index"
    /\ args.current_load = <<3, 1>>
    /\ args.historical_avg = <<1, 1>>
    /\ args.historical_std = <<1, 1>>
    /\ ret.value = "Moderate Risk"

----------------------------------------------------------------------------
(* Properties of the growth rate and the consistency score *)

FirstOf(s) == s[1]
LastOf(s) == s[Len(s)]

\* (last - first) / first * 100 for numbers with first # 0, NaN when either
\* is missing
PercentChange(first, last) ==
    IF first[2] = 0 \/ last[2] = 0 THEN <<0, 0>>
    ELSE Rat((last[1] * first[2] - first[1] * last[2]) * 100 * first[2],
             last[2] * first[2] * first[1])

\* C16: calculate_growth_rate returns 0 for a series with fewer than 2
\* points; for a series whose first value is 0 it returns 100 when the last
\* value is positive and 0 otherwise; in every other case it returns
\* (last - first) / first * 100, so it never divides by zero.
C16_GrowthRate ==
    op = "calculate_growth_rate" =>
        LET data == args.data
        IN  /\ ~ret.raised
            /\ Len(data) < 2 => ret.value = <<0, 1>>
            /\ (Len(data) >= 2 /\ FirstOf(data) = <<0, 1>>) =>
                  ret.value = IF LastOf(data)[2] # 0 /\ LastOf(data)[1] > 0
                              THEN <<100, 1>> ELSE <<0, 1>>
            /\ (Len(data) >= 2 /\ FirstOf(data) # <<0, 1>>) =>
                  SameNumber(ret.value, PercentChange(FirstOf(data), LastOf(data)))

\* the worked examples [10,5] gives -50 and [7] gives 0
C16_Examples ==
    op = "calculate_growth_rate" =>
        /\ args.data = <<(<<10, 1>>), (<<5, 1>>)>> => ret.value = <<0 - 50, 1>>
        /\ args.data = <<(<<7, 1>>)>> => ret.value = <<0, 1>>

\* the worked example of the zero baseline: [0,5] gives 100
C16_Witness ==
    /\ op = "calculate_growth_rate"
    /\ args.data = <<(<<0, 1>>), (<<5, 1>>)>>
    /\ ret.value = <<100, 1>>

\* the samples of a series: its non-missing values
Samples(s) == SelectSeq(s, LAMBDA v : v[2] # 0)

AllEqual(s) == \A i, j \in DOMAIN s : s[i] = s[j]

\* the square of the coefficient of variation std / mean * 100 of at least
\* two samples with a mean other than 0 (sample std)
CvSquare(s) ==
    LET m == Mean(s)
    IN  RDiv(RMul(Num(10000), SumSquares(s, m)), RMul(Num(Len(s) - 1), RMul(m, m)))

\* r is 100 - cv floored at 0, for a cv of the given sign and square
IsHundredMinusCv(r, m, sq) ==
    IF RLess(Num(0), m) /\ RLeq(Num(10000), sq) THEN r = <<0, 1>>
    ELSE r = [sign |-> IF RLess(m, Num(0)) THEN 0 - 1 ELSE 1, square |-> sq]

\* C17: calculate_consistency_score returns 100 when the series has fewer
\* than 2 samples, when its mean is 0, or when all its values are equal;
\* otherwise it returns 100 minus the coefficient of variation
\* (std / mean * 100), and the result is never below 0.
C17_ConsistencyScore ==
    op = "calculate_consistency_score" =>
        LET s == Samples(args.data)
        IN  /\ ~ret.raised
            /\ IF Len(s) < 2 \/ Mean(s) = <<0, 1>> \/ AllEqual(s)
               THEN ret.value = <<100, 1>>
               ELSE IsHundredMinusCv(ret.value, Mean(s), CvSquare(s))

\* what the code does: the test of the sample count is len(data), which
\* counts missing entries, so a series of two or more entries with fewer
\* than two samples passes it, its std is NaN and max(0, NaN) is 0
C17_CodeBehaviour ==
    op = "calculate_consistency_score" =>
        LET s == Samples(args.data)
        IN  /\ ~ret.raised
            /\ IF Len(args.data) < 2 THEN ret.value = <<100, 1>>
               ELSE IF Len(s) < 2 THEN ret.value = IF s = <<(<<0, 1>>)>> THEN <<100, 1>> ELSE <<0, 1>>
               ELSE IF Mean(s) = <<0, 1>> \/ AllEqual(s) THEN ret.value = <<100, 1>>
               ELSE IsHundredMinusCv(ret.value, Mean(s), CvSquare(s))

\* the worked examples [5,5,5] and [] give 100
C17_Examples ==
    op = "calculate_consistency_score" =>
        /\ args.data = <<(<<5, 1>>), (<<5, 1>>), (<<5, 1>>)>> => ret.value = <<100, 1>>
        /\ args.data = <<>> => ret.value = <<100, 1>>

----------------------------------------------------------------------------
(* Properties of the trend coefficient *)

RECURSIVE Total(_)
Total(s) == IF s = <<>> THEN 0 ELSE Head(s)[1] + Total(Tail(s))

\* the arithmetic mean of a non-empty sequence of whole numbers
MeanOf(s) == Rat(Total(s), Len(s))

\* C18: calculate_trend_coefficient does not fail when x or y has fewer than
\* 2 points: it returns slope 0 and an intercept equal to the mean of y, or
\* 0 when y is empty.
C18_ShortInputGivesFlatLine ==
    (op = "calculate_trend_coefficient" /\ (Len(args.x) < 2 \/ Len(args.y) < 2)) =>
        /\ ~ret.raised
        /\ ret.value[1] = <<0, 1>>
        /\ ret.value[2] = IF args.y = <<>> THEN <<0, 1>> ELSE MeanOf(args.y)

\* a single x with the three points 5, 7, 10 of y: slope 0, intercept 22/3
C18_Witness ==
    /\ op = "calculate_trend_coefficient"
    /\ Len(args.x) = 1
    /\ args.y = <<(<<5, 1>>), (<<7, 1>>), (<<10, 1>>)>>
    /\ ~ret.raised
    /\ ret.value = <<(<<0, 1>>), (<<22, 3>>)>>

\* with two or more points on each side the line is the least-squares fit:
\* the points (0,5), (1,7) give slope 2 and intercept 5
C18_FitExample ==
    (op = "calculate_trend_coefficient"
        /\ Len(args.x) = 2 /\ args.y = <<(<<5, 1>>), (<<7, 1>>)>>) =>
        ret = [raised |-> FALSE, value |-> <<(<<2, 1>>), (<<5, 1>>)>>]

----------------------------------------------------------------------------
(* Properties of the per-player aggregation *)

\* the rows of the table that belong to player p and hold a distance
ValuedRows(p) ==
    {i \in DOMAIN args.df["Player Name"] :
        args.df["Player Name"][i] = p /\ args.df["Total Distance"][i][2] # 0}

\* the rows of the whole table that hold a distance
PopulationRows == {i \in DOMAIN args.df["Total Distance"] : args.df["Total Distance"][i][2] # 0}

RECURSIVE SumOver(_)
SumOver(S) ==
    IF S = {} THEN 0
    ELSE LET i == CHOOSE j \in S : TRUE
         IN  args.df["Total Distance"][i][1] + SumOver(S \ {i})

\* the arithmetic mean of the player's non-missing distances, missing when
\* the player has none
PlayerMean(p) ==
    IF ValuedRows(p) = {} THEN <<0, 0>>
    ELSE Rat(SumOver(ValuedRows(p)), Cardinality(ValuedRows(p)))

\* the individual values of the population strictly below v
RowsBelow(v) ==
    {i \in PopulationRows : args.df["Total Distance"][i][1] * v[2] < v[1]}

\* the percentile of the aggregate v against all individual values
RankAgainstAll(v) ==
    IF v[2] = 0 THEN <<0, 1>>
    ELSE Rat(100 * Cardinality(RowsBelow(v)), Cardinality(PopulationRows))

Compared == op = "render_overall_performance_comparison" /\ ret.value # <<>>

\* C19: aggregating a table by player with the mean gives, for each player,
\* the arithmetic mean of that player's non-missing values of the metric, and
\* the percentile of a player's aggregate is taken against all individual
\* values of the population.
C19_MeanPerPlayerRankedAgainstAll ==
    Compared =>
        /\ DOMAIN ret.value.percentile_data =
              {p \in args.selected_players :
                  \E i \in DOMAIN args.df["Player Name"] : args.df["Player Name"][i] = p}
        /\ \A p \in DOMAIN ret.value.percentile_data :
              /\ SameNumber(ret.value.player_averages[p]["Total Distance"], PlayerMean(p))
              /\ PopulationRows # {} =>
                    ret.value.percentile_data[p]["Total Distance"] =
                        RankAgainstAll(PlayerMean(p))

\* the worked example: A with [10,12] averages 11, B with [8,9] averages
\* 8.5, and 8.5 against [10,12,8,9] is the 25th percentile
C19_Witness ==
    /\ Compared
    /\ args.df["Player Name"] = <<"A", "A", "B", "B">>
    /\ args.df["Total Distance"] = <<(<<10, 1>>), (<<12, 1>>), (<<8, 1>>), (<<9, 1>>)>>
    /\ args.selected_players = {"A", "B"}
    /\ ret.value.player_averages["A"]["Total Distance"] = <<11, 1>>
    /\ ret.value.player_averages["B"]["Total Distance"] = <<17, 2>>
    /\ ret.value.percentile_data["B"]["Total Distance"] = <<25, 1>>

----------------------------------------------------------------------------
(* Properties of the basic load score *)

\* the five weighted metrics and their weights, in hundredths
FiveWeights ==
    ("Total Distance" :> 30) @@ ("Sprint Distance" :> 20) @@ ("High Speed Running" :> 20)
    @@ ("Accelerations" :> 15) @@ ("Decelerations" :> 15)

\* the sum over the metrics of S of weight * the value of row i
RECURSIVE WeightedRowSum(_, _)
WeightedRowSum(S, i) ==
    IF S = {} THEN <<0, 1>>
    ELSE LET m == CHOOSE x \in S : TRUE
         IN  RAdd(RMul(Rat(FiveWeights[m], 100), df[m][i]), WeightedRowSum(S \ {m}, i))

\* C20: the basic load score of a row is the sum, over those of the five
\* weighted metrics that are columns of the table, of weight * the row's
\* value; it depends on no other row and on no other column.
C20_WeightedSumOfPresentColumns ==
    op = "calculate_load_score" =>
        /\ Len(load_score) = Height(df)
        /\ \A i \in DOMAIN load_score :
              SameNumber(load_score[i], WeightedRowSum(DOMAIN FiveWeights \cap DOMAIN df, i))

\* two rows with distances 1 and 2, accelerations 2 and 1, and a Max Speed
\* column: the scores are 0.3 + 0.3 = 3/5 and 0.6 + 0.15 = 3/4
C20_Witness ==
    /\ op = "calculate_load_score"
    /\ DOMAIN df = {"Total Distance", "Accelerations", "Max Speed"}
    /\ df["Total Distance"] = <<(<<1, 1>>), (<<2, 1>>)>>
    /\ df["Accelerations"] = <<(<<2, 1>>), (<<1, 1>>)>>
    /\ load_score = <<(<<3, 5>>), (<<3, 4>>)>>

----------------------------------------------------------------------------
(* Properties of the weight tables *)

\* the sum of the weights of a table (hundredths)
RECURSIVE TableSum(_)
TableSum(w) ==
    IF DOMAIN w = {} THEN 0
    ELSE LET m == CHOOSE x \in DOMAIN w : TRUE
         IN  w[m] + TableSum([k \in DOMAIN w \ {m} |-> w[k]])

PositiveSummingToOne(w) == (\A m \in DOMAIN w : w[m] > 0) /\ TableSum(w) = 100

\* every column that the operation weights holds v on the row
UniformRow(cols, v) == \A c \in cols : args.df[c] = <<v>>

\* C21: in every weighting scheme (performance score, basic load score,
\* advanced load score, session intensity) all weights are positive and the
\* weights of the scheme sum to 1.0; so a row that holds the same value in
\* every weighted column gets that value as its basic load score and as its
\* session intensity.
C21_WeightsSumToOne ==
    /\ PositiveSummingToOne(PERFORMANCE_WEIGHTS)
    /\ PositiveSummingToOne(weights)
    /\ PositiveSummingToOne(base_weights)
    /\ PositiveSummingToOne(intensity_metrics)
    /\ \A v \in {<<k, 1>> : k \in 0..MaxVal} :
          /\ (op = "calculate_load_score"
                /\ UniformRow({"Total Distance", "Sprint Distance", "High Speed Running",
                               "Accelerations", "Decelerations"}, v))
                => ret.value = <<v>>
          /\ (op = "calculate_session_intensity"
                /\ UniformRow({"Max Speed", "Sprint Distance", "High Speed Running",
                               "No of Sprints"}, v))
                => ret.value = <<v>>

\* a row with 2 in the four intensity columns and 0 elsewhere: intensity 2
C21_Witness ==
    /\ op = "calculate_session_intensity"
    /\ UniformRow({"Max Speed", "Sprint Distance", "High Speed Running", "No of Sprints"}, <<2, 1>>)
    /\ UniformRow({"Total Distance", "Accelerations", "Decelerations"}, <<0, 1>>)
    /\ ret.value = <<(<<2, 1>>)>>

----------------------------------------------------------------------------
(* Properties of the engine operations as calls *)

\* C22: no Metrics Engine operation modifies the table or series it is
\* given: every call leaves its arguments as they were, and the call
\* repeated on the same arguments returns the same result.
C22_EngineOperationsArePure ==
    [][/\ args' = args
       /\ Len(ret') = 2 => ret'[1] = ret'[2]]_vars

\* calculate_percentile_values called twice on a selected value 1 and the
\* reference values 0 and 1: both calls return the percentile 50 and the
\* selected table still holds 1
C22_Witness ==
    /\ op = "calculate_percentile_values"
    /\ Len(ret) = 2
    /\ args.selected_df["Total Distance"] = <<(<<1, 1>>)>>
    /\ args.full_df["Total Distance"] = <<(<<0, 1>>), (<<1, 1>>)>>
    /\ ret[1]["Total Distance"] = <<(<<50, 1>>)>>
    /\ ret[2] = ret[1]

----------------------------------------------------------------------------
(* Properties of the report pages of a team without files *)

NoFilesConfigured ==
    /\ args.team_config.match_files = <<>>
    /\ args.team_config.training_files = <<>>

\* C23: for a configured team whose match and training file mappings are
\* empty, selecting any of the five report types ends with a warning shown
\* to the user and an early return; no report page raises an unhandled
\* exception because there are no files to load.
C23_EmptyTeamGetsWarning ==
    (op = "render_report" /\ NoFilesConfigured) =>
        /\ ~ret.raised
        /\ ret.value = "warning"

\* what the code does: four pages warn; Player Profile raises whenever one
\* of the two mappings is empty, and never otherwise
C23_CodeBehaviour ==
    op = "render_report" =>
        /\ ret.raised <=>
              /\ args.report_type = "Player Profile"
              /\ \/ args.team_config.match_files = <<>>
                 \/ args.team_config.training_files = <<>>
        /\ (NoFilesConfigured /\ args.report_type # "Player Profile") =>
              ret.value = "warning"

----------------------------------------------------------------------------
(* Properties of the provider calls of one get_ai_coach_insights call *)

ProviderCalls(q) == SelectSeq(q, LAMBDA x : x \in {"gpt-4", "gpt-3.5-turbo"})

\* the step appends the provider call with model m
Calls(m) == calls' = Append(calls, m)

\* the text contains the letters model in any letter case / contains 404
ContainsModelAnyCase(t) == t \in {"The model gpt-4 does not exist", "Model not available"}
Contains404(t) == t = "Error code: 404"

Unavailable(r) ==
    r.msg \in {"AI Coach unavailable: {e}. Please check your API key.",
               "AI Coach unavailable: {e}. Please ensure you have the latest OpenAI library installed."}

\* the order of the provider calls, step by step, for a given retry test
ProviderOrder(Retry(_)) ==
    /\ Calls("gpt-4") => ProviderCalls(calls) = <<>>
    /\ Calls("gpt-3.5-turbo") =>
          /\ ProviderCalls(calls) = <<"gpt-4">>
          /\ Retry(err)
    /\ Len(ProviderCalls(calls')) <= 2
    /\ (Calls("gpt-3.5-turbo") /\ err' # "") =>
          /\ ai_pc' = "returned"
          /\ Unavailable(ai_result')

----------------------------------------------------------------------------
(* Properties of the recovery time *)

\* the load-dependent base: 24, 36 for a load above 60, 48 for a load above 80
LoadBase ==
    LET l == args.load_score
    IN  IF l[2] # 0 /\ l[1] > 80 * l[2] THEN 48
        ELSE IF l[2] # 0 /\ l[1] > 60 * l[2] THEN 36
        ELSE 24

\* the age of the player, 0 when none was given
AgeOrZero == IF args.age = <<>> THEN 0 ELSE args.age[1]

\* C25: calculate_recovery_time adds 24 hours to the recovery estimate for a
\* player older than 35 and 12 hours for a player older than 30 but not
\* older than 35, on top of the load-dependent base.
C25_AgeBands ==
    op = "calculate_recovery_time" =>
        ret.value = LoadBase + (IF AgeOrZero > 35 THEN 24
                                ELSE IF AgeOrZero > 30 THEN 12
                                ELSE 0)

\* what the code does: every player older than 30 gets 12 hours, the branch
\* for players older than 35 being tested after the branch that already
\* holds for them
C25_CodeBehaviour ==
    op = "calculate_recovery_time" =>
        ret.value = LoadBase + (IF AgeOrZero > 30 THEN 12 ELSE 0)

----------------------------------------------------------------------------
(* Properties of the navigation *)

IsReport(page) == page \in {"Match Report", "Weekly Training Report",
                            "Daily Training Report", "Compare Players",
                            "Player Profile"}

ConfiguredTeam(t) == t \in {"SSA Swarm USL2", "SSA Swarm USLW",
                            "SSA Swarm MLS Next U19", "SSA Swarm GA U19"}

\* C26: after any sequence of team selections, Back presses and reruns, the
\* landing page is rendered exactly in the runs in which selected_team is
\* None, a report page is rendered only in runs in which selected_team is a
\* key of TEAMS_CONFIG, and a run that finds a selected_team with no
\* configuration resets it to None and asks for a rerun without rendering a
\* report.
C26_NavigationFollowsSelectedTeam ==
    \A i \in 1..Len(ret) :
        op = "main" =>
            LET run == ret[i]
            IN  /\ (run.rendered = "landing") <=> (run.before = "None")
                /\ IsReport(run.rendered) => ConfiguredTeam(run.before)
                /\ (run.before # "None" /\ ~ConfiguredTeam(run.before)) =>
                       /\ run.error /\ run.rerun /\ run.after = "None"
                       /\ ~IsReport(run.rendered)
                /\ i > 1 => run.before = ret[i-1].after

\* the first run rendered the landing page, a team was selected on it, its
\* report was rendered in the requested rerun, and Back led to a run that
\* rendered nothing
C26_Witness ==
    /\ op = "main" /\ Len(ret) = 4
    /\ ret[1].rendered = "landing" /\ ~ret[1].rerun
    /\ ret[2].rendered = "landing" /\ ret[2].after = "SSA Swarm USL2" /\ ret[2].rerun
    /\ ret[3].rendered = "Player Profile" /\ ~ret[3].rerun
    /\ ret[4].before = "SSA Swarm USL2" /\ ret[4].after = "None" /\ ret[4].rerun

\* a session whose team has no configuration is sent back to the landing page
C26_UnconfiguredWitness ==
    /\ op = "main" /\ Len(ret) = 2
    /\ ret[1].before = "Former Team" /\ ret[1].error
    /\ ret[2].rendered = "landing"

----------------------------------------------------------------------------
(* The two implementations of calculate_percentile_values side by side *)

\* the table the other implementation returns for the arguments of the call
\* that was made
OtherImplementation ==
    IF op = "utils.calculate_percentile_values"
    THEN metrics_calculate_percentile_values(selected_df, full_df, PctMetrics)
    ELSE utils_calculate_percentile_values(selected_df, full_df, PctMetrics)

\* C27: the two implementations of calculate_percentile_values
\* (components/metrics.py and utils/calculations.py) return the same table
\* for every selected table, reference table and metric list, including when
\* a reference column has no non-missing value.
C27_ImplementationsAgree ==
    op \in TableOps => percentile_df = OtherImplementation

\* what the code does: the two tables are the same whenever every reference
\* column that exists has a non-missing value, and differ in every cell of a
\* metric whose reference column has none (the raw cell against NaN, or a
\* missing cell against 0)
C27_CodeBehaviour ==
    op \in TableOps =>
        \A m \in PctMetrics :
            IF m \in DOMAIN full_df /\ RefPop(m) = <<>>
            THEN \A i \in DOMAIN selected_df[m] :
                     percentile_df[m][i] # OtherImplementation[m][i]
            ELSE percentile_df[m] = OtherImplementation[m]

----------------------------------------------------------------------------
(* Monotonicity of the percentile *)

\* the two target values of the call: the cells of the two rows, or the mean
\* of the first row and the mean of both rows
MonoTarget(k) ==
    LET col == args.selected_df["Total Distance"]
        s == SelectSeq(SubSeq(col, 1, k), LAMBDA x : x[2] # 0)
    IN  IF op = "utils.calculate_percentile_values" THEN col[k]
        ELSE IF s = <<>> THEN <<0, 0>> ELSE Rat(SumSeq(s)[1], SumSeq(s)[2] * Len(s))

\* the population has a non-missing value
MonoPopulated ==
    \E j \in DOMAIN args.full_df["Total Distance"] :
        args.full_df["Total Distance"][j][2] # 0

AtMost(a, b) == a[1] * b[2] <= b[1] * a[2]

\* C28: for a fixed non-empty reference population and two target values
\* v1 <= v2 the percentile of v1 is at most the percentile of v2, and adding
\* to the population a value strictly below v never lowers the percentile
\* of v.
C28_PercentileIsMonotone ==
    (op # "none" /\ MonoPopulated) =>
        \A k, l \in 1..2 :
            LET v1 == MonoTarget(k)
                v2 == MonoTarget(l)
            IN  /\ (v1[2] # 0 /\ v2[2] # 0 /\ AtMost(v1, v2)) =>
                       /\ AtMost(ret.before[k], ret.before[l])
                       /\ AtMost(ret.after[k], ret.after[l])
                /\ (v1[2] # 0 /\ args.added[2] # 0 /\ ~AtMost(v1, args.added)) =>
                       AtMost(ret.before[k], ret.after[k])

\* a player whose mean of two rows lies above the first row and is ranked
\* higher, and whose rank rises when a value below the mean is added
C28_Witness ==
    /\ op = "calculate_player_percentiles"
    /\ MonoPopulated
    /\ MonoTarget(1)[2] # 0 /\ MonoTarget(2)[2] # 0
    /\ ~AtMost(MonoTarget(2), MonoTarget(1))
    /\ ~AtMost(ret.before[2], ret.before[1])
    /\ args.added[2] # 0 /\ ~AtMost(MonoTarget(2), args.added)
    /\ ~AtMost(ret.after[2], ret.before[2])

----------------------------------------------------------------------------
(* Properties of display_ai_assistant over the runs of a page *)

\* the session key of a context: insights_ai_button_ and the context with
\* its spaces, slashes and colons replaced by underscores
KeyOfContext(c) ==
    IF c = "Overall Performance Comparison"
    THEN "insights_ai_button_Overall_Performance_Comparison"
    ELSE "insights_ai_button_Match_Report__Total"

\* what a run of display_ai_assistant for context c shows below the button
ShownFor(state, c) ==
    IF KeyOfContext(c) \in DOMAIN state THEN state[KeyOfContext(c)] ELSE <<>>

PressableContexts == {"Overall Performance Comparison", "Match Report: Total"}

\* C29: in display_ai_assistant the provider is invoked only in a run in
\* which the Get AI Insights button of that context was pressed; the returned
\* text is stored in session state under a key derived from the context and
\* is what every later run shows, without a new provider call, until a new
\* press for the same key replaces it.
C29_InsightsStoredPerContext ==
    [][/\ (ai_pc = "idle" /\ ai_pc' # "idle") =>
              (context' \in PressableContexts /\ calls' = <<>>)
       /\ calls' # calls => (ai_pc' # "idle" /\ (ai_pc # "idle" \/ calls' = <<>>))
       /\ ai_pc # "idle" => context' = context
       /\ (ai_pc = "returned" /\ ai_pc' = "idle") =>
              /\ ShownFor(session_state', context) = ai_result
              /\ \A c \in PressableContexts \ {context} :
                     ShownFor(session_state', c) = ShownFor(session_state, c)
       /\ ~(ai_pc = "returned" /\ ai_pc' = "idle") =>
              \A c \in PressableContexts :
                  ShownFor(session_state', c) = ShownFor(session_state, c)
      ]_vars

\* the insights of one context are still in the session state when a press
\* for the other context has called the provider and returned
C29_Witness ==
    /\ ai_pc = "returned"
    /\ context = "Match Report: Total"
    /\ \E i \in DOMAIN calls : calls[i] = "gpt-4"
    /\ DOMAIN session_state = {"insights_ai_button_Overall_Performance_Comparison"}
    /\ ShownFor(session_state, "Overall Performance Comparison") # ai_result

----------------------------------------------------------------------------
(* Range of the advanced load score *)

SixWeighted == {"Total Distance", "Sprint Distance", "High Speed Running",
                "Accelerations", "Decelerations", "Max Speed"}

WeightedPresent == DOMAIN df \cap SixWeighted

\* every weighted column takes at least two distinct values
TwoDistinct ==
    \A m \in WeightedPresent :
        \E i, j \in DOMAIN df[m] : ~REq(df[m][i], df[m][j])

HoldsMin(i) == \A m \in WeightedPresent : \A j \in DOMAIN df[m] : RLeq(df[m][i], df[m][j])
HoldsMax(i) == \A m \in WeightedPresent : \A j \in DOMAIN df[m] : RLeq(df[m][j], df[m][i])

\* C30: for a table with no missing metric value in which every weighted
\* metric column takes at least two distinct values, the advanced load score
\* of every row lies in [0,100]; it is 0 for a row that holds the minimum of
\* every weighted column, and 100 for a row that holds the maximum of every
\* weighted column when all six weighted metrics are present.
C30_AdvancedScoreRange ==
    (op = "calculate_load_score_advanced" /\ NoMissing(df) /\ TwoDistinct) =>
        \A i \in DOMAIN load_score :
            /\ RLeq(Num(0), load_score[i]) /\ RLeq(load_score[i], Num(100))
            /\ HoldsMin(i) => REq(load_score[i], Num(0))
            /\ (HoldsMax(i) /\ WeightedPresent = SixWeighted) =>
                   REq(load_score[i], Num(100))

\* all six columns, one row with every minimum, one with every maximum and
\* one strictly in between
C30_Witness ==
    /\ op = "calculate_load_score_advanced"
    /\ NoMissing(df) /\ TwoDistinct
    /\ WeightedPresent = SixWeighted
    /\ \E i, j, k \in DOMAIN load_score :
        /\ HoldsMin(i) /\ REq(load_score[i], Num(0))
        /\ HoldsMax(j) /\ REq(load_score[j], Num(100))
        /\ RLess(Num(0), load_score[k]) /\ RLess(load_score[k], Num(100))

=============================================================================
